---- MODULE Spec2Model ----
(***************************************************************************)
(* The cat-food catalogue.  Natural-language search: the model call and    *)
(* JSON extraction (SearchService._extract_search_params), the SQL text    *)
(* built from the extracted parameters (SearchService._build_sql_query),   *)
(* its execution by PostgreSQL, the formatting of the rows                 *)
(* (SearchService.search) and the endpoint around it                       *)
(* (search_controller.search).  The catalogue's tables and what writes     *)
(* them: the product and ingredient API, CSV ingestion, the deletion       *)
(* scripts, the dog-food migration, backup and restore.                    *)
(*                                                                         *)
(* Text is a sequence of one-character strings wherever the code or the    *)
(* database looks inside it (filter values, stored columns, SQL operands,  *)
(* CSV cells).  Rendered output is a sequence of lines, each line a        *)
(* sequence of text fragments whose concatenation is the line.             *)
(***************************************************************************)
EXTENDS Integers, Sequences, FiniteSets, TLC

VARIABLES
    store,      \* table cat_food_product: sequence of rows in insertion order
    nextId,     \* the next value of cat_food_product_id_seq
    ingredient, \* table ingredient: sequence of rows in insertion order
    association,        \* table product_ingredient_association: set of rows
    nextIngredientId,   \* the next value of ingredient_id_seq
    last,       \* the search request handled last, with its inputs and outcome
    prev,       \* the HTTP response of the request before it, when that one
                \* extracted the same parameters from the same table
    lastOp,     \* the operation on the catalogue that ran last: its name, its
                \* --yes, its statements, and the tables it found
    backup,     \* the directory backup_database wrote, and the tables it read
    reqs        \* the search requests in flight, each with its own frame

vars == <<store, nextId, ingredient, association, nextIngredientId, last, prev,
          lastOp, backup, reqs>>

-----------------------------------------------------------------------------
(* Values: JSON values out of the model's answer, and nullable columns.    *)

JNull == [t |-> "null", s |-> <<>>, n |-> 0]
JStr(s) == [t |-> "str", s |-> s, n |-> 0]
JNum(n) == [t |-> "num", s |-> <<>>, n |-> n]
JBool(b) == [t |-> "bool", s |-> <<>>, n |-> IF b THEN 1 ELSE 0]

\* A JSON array of strings, as far as the model needs one: [] (n = 0) or the
\* one-element array ["s"] (n = 1).
JList(n, s) == [t |-> "list", s |-> s, n |-> n]

\* Python truthiness, as tested by `if params.get(...)`.
Truthy(v) ==
    CASE v.t = "null" -> FALSE
      [] v.t = "str" -> v.s # <<>>
      [] v.t = "num" -> v.n # 0
      [] v.t = "bool" -> v.n = 1
      [] v.t = "list" -> v.n # 0

DigitChar == <<"0", "1", "2", "3", "4", "5", "6", "7", "8", "9">>

Digits == {DigitChar[i] : i \in 1..10}

DigitVal(c) == (CHOOSE i \in 1..10 : DigitChar[i] = c) - 1

RECURSIVE NatChars(_)
NatChars(n) ==
    IF n < 10 THEN <<DigitChar[n + 1]>>
    ELSE NatChars(n \div 10) \o <<DigitChar[(n % 10) + 1]>>

IntChars(n) == IF n < 0 THEN <<"-">> \o NatChars(-n) ELSE NatChars(n)

\* str() of a value, as an f-string interpolates it.
PyStr(v) ==
    CASE v.t = "null" -> <<"N", "o", "n", "e">>
      [] v.t = "str" -> v.s
      [] v.t = "num" -> IntChars(v.n)
      [] v.t = "bool" -> IF v.n = 1 THEN <<"T", "r", "u", "e">>
                         ELSE <<"F", "a", "l", "s", "e">>
      [] v.t = "list" -> IF v.n = 0 THEN <<"[", "]">>
                         ELSE <<"[", "'">> \o v.s \o <<"'", "]">>

\* str() of a Float column read back from the database (3 reads "3.0").
PyFloatStr(v) ==
    IF v.t = "null" THEN PyStr(v) ELSE IntChars(v.n) \o <<".", "0">>

\* The dict {}.
EmptyDict == [k \in {} |-> JNull]

\* dict.get(key): None when the key is absent.
DictGet(params, key) == IF key \in DOMAIN params THEN params[key] ELSE JNull

-----------------------------------------------------------------------------
(* The model's answer and SearchService._extract_search_params.            *)
(* The answer is a sequence of tokens: "{", "}", ",", a run of prose       *)
(* without braces, one member "key": value of a JSON object whose value is *)
(* a scalar or an array, or "key" for a member's "key": alone, before a    *)
(* value that is itself an object.  The user's query only reaches the      *)
(* model inside the prompt, so the answer is the input that decides the    *)
(* request.                                                                *)

Tok(kind) == [kind |-> kind, key |-> "", val |-> JNull]
Member(key, val) == [kind |-> "member", key |-> key, val |-> val]

\* Position of the first "}" after position i, 0 when there is none.
FirstClose(text, i) ==
    LET closes == {j \in (i + 1)..Len(text) : text[j].kind = "}"}
    IN IF closes = {} THEN 0 ELSE CHOOSE j \in closes : \A k \in closes : j <= k

\* re.search(r"\{[^}]+\}", text): the leftmost "{" followed by at least one
\* token other than "}" and then "}".
RegexSearch(text) ==
    LET starts == {i \in 1..Len(text) :
                      text[i].kind = "{" /\ FirstClose(text, i) >= i + 2}
    IN IF starts = {} THEN [found |-> FALSE, group |-> <<>>]
       ELSE LET i == CHOOSE a \in starts : \A b \in starts : a <= b
            IN [found |-> TRUE, group |-> SubSeq(text, i, FirstClose(text, i))]

\* json.loads of "{" ... "}": members separated by commas, or a ValueError.
\* A key given twice keeps its last value.
JsonLoads(group) ==
    LET inner == SubSeq(group, 2, Len(group) - 1)
        wellFormed ==
            /\ Len(inner) % 2 = 1
            /\ \A i \in 1..Len(inner) :
                  inner[i].kind = (IF i % 2 = 1 THEN "member" ELSE ",")
        keys == {inner[i].key : i \in {j \in 1..Len(inner) : j % 2 = 1}}
        lastOf(k) == CHOOSE i \in 1..Len(inner) :
                        /\ inner[i].kind = "member" /\ inner[i].key = k
                        /\ \A j \in (i + 1)..Len(inner) :
                              ~(inner[j].kind = "member" /\ inner[j].key = k)
    IN IF wellFormed
       THEN [raised |-> FALSE, value |-> [k \in keys |-> inner[lastOf(k)].val]]
       ELSE [raised |-> TRUE, value |-> EmptyDict]

\* The completion call stands before the try block: when it raises, the
\* exception leaves the method.  Inside the try, no match or a ValueError
\* gives {}.
extract_search_params(response) ==
    IF response.raises
    THEN [raised |-> TRUE, params |-> EmptyDict]
    ELSE LET json_match == RegexSearch(response.text)
         IN IF json_match.found
            THEN LET loaded == JsonLoads(json_match.group)
                 IN [raised |-> FALSE,
                     params |-> IF loaded.raised THEN EmptyDict
                                ELSE loaded.value]
            ELSE [raised |-> FALSE, params |-> EmptyDict]

-----------------------------------------------------------------------------
(* SearchService._build_sql_query.  The statement keeps its fixed shape as *)
(* structure (column, operator, ORDER BY, LIMIT); the operand of each      *)
(* condition is the text the f-string produced, character by character,    *)
(* because that text is what the database lexes.                           *)

ResultLimit == 20

Cond(col, op, operand) == [col |-> col, op |-> op, operand |-> operand]

\* f"<col> ILIKE '%{value}%'"
IlikeCond(col, value) ==
    Cond(col, "ILIKE", <<"'", "%">> \o PyStr(value) \o <<"%", "'">>)

\* f"price <= {value}"
PriceCond(value) == Cond("price", "<=", PyStr(value))

\* "1=1", the WHERE clause when no condition was appended.
TrueCond == Cond("1", "=", <<"1">>)

where_clause(params) ==
    LET c1 == IF Truthy(DictGet(params, "food_type"))
              THEN <<IlikeCond("food_type", params["food_type"])>> ELSE <<>>
        c2 == IF Truthy(DictGet(params, "age_group"))
              THEN <<IlikeCond("age_group", params["age_group"])>> ELSE <<>>
        c3 == IF Truthy(DictGet(params, "brand"))
              THEN <<IlikeCond("brand", params["brand"])>> ELSE <<>>
        c4 == IF Truthy(DictGet(params, "max_price"))
              THEN <<PriceCond(params["max_price"])>> ELSE <<>>
        conditions == c1 \o c2 \o c3 \o c4
    IN IF conditions # <<>> THEN conditions ELSE <<TrueCond>>

\* The statement without its ORDER BY line.
build_sql_query_unordered(params) ==
    [where |-> where_clause(params), order_by |-> "", limit |-> ResultLimit]

build_sql_query(params) ==
    [where |-> where_clause(params), order_by |-> "name", limit |-> ResultLimit]

-----------------------------------------------------------------------------
(* PostgreSQL, as far as the statement reaches it: lexing of the operand   *)
(* texts, ILIKE, the comparison with NULL, ORDER BY name and LIMIT.        *)

UpperCase == <<"A", "B", "C", "D", "E", "F", "G", "H", "I", "J", "K", "L", "M",
               "N", "O", "P", "Q", "R", "S", "T", "U", "V", "W", "X", "Y", "Z">>

LowerCase == <<"a", "b", "c", "d", "e", "f", "g", "h", "i", "j", "k", "l", "m",
               "n", "o", "p", "q", "r", "s", "t", "u", "v", "w", "x", "y", "z">>

Letters == 1..Len(UpperCase)

Lower(c) ==
    IF \E i \in Letters : UpperCase[i] = c
    THEN LowerCase[CHOOSE i \in Letters : UpperCase[i] = c]
    ELSE c

LowerText(text) == [i \in 1..Len(text) |-> Lower(text[i])]

\* A string constant '...' (standard_conforming_strings): '' inside it is one
\* quote, a single ' ends it.  The operand is one string constant only when
\* that closing quote is its last character.  Text left over after the
\* closing quote is no part of the constant, so the condition as written is
\* rejected; text that goes on with a semicolon and statements of its own is
\* treated by Stacks and Committed below.
RECURSIVE LexString(_, _, _)
LexString(text, i, acc) ==
    IF i > Len(text) THEN [ok |-> FALSE, value |-> <<>>]
    ELSE IF text[i] = "'"
         THEN IF i < Len(text) /\ text[i + 1] = "'"
              THEN LexString(text, i + 2, Append(acc, "'"))
              ELSE [ok |-> i = Len(text), value |-> acc]
         ELSE LexString(text, i + 1, Append(acc, text[i]))

StringConstant(text) == LexString(text, 2, <<>>)

RECURSIVE DigitsValue(_, _)
DigitsValue(text, acc) ==
    IF text = <<>> THEN acc
    ELSE DigitsValue(Tail(text), 10 * acc + DigitVal(Head(text)))

\* A numeric constant, with or without a sign.  Any other operand is a name
\* (abc: no such column) or a boolean (True: no operator compares a float
\* with it), and the statement is rejected.
NumericConstant(text) ==
    LET digits == IF text # <<>> /\ Head(text) = "-" THEN Tail(text) ELSE text
        ok == digits # <<>> /\ \A i \in 1..Len(digits) : digits[i] \in Digits
    IN [ok |-> ok,
        value |-> IF ~ok THEN 0
                  ELSE IF Head(text) = "-" THEN -DigitsValue(digits, 0)
                  ELSE DigitsValue(digits, 0)]

\* string LIKE pattern: % is any run of characters, _ any one character.
RECURSIVE LikeMatch(_, _)
LikeMatch(pattern, string) ==
    IF pattern = <<>> THEN string = <<>>
    ELSE IF Head(pattern) = "%"
         THEN \/ LikeMatch(Tail(pattern), string)
              \/ string # <<>> /\ LikeMatch(pattern, Tail(string))
    ELSE IF Head(pattern) = "_"
         THEN string # <<>> /\ LikeMatch(Tail(pattern), Tail(string))
    ELSE /\ string # <<>>
         /\ Head(string) = Head(pattern)
         /\ LikeMatch(Tail(pattern), Tail(string))

\* column ILIKE pattern; NULL ILIKE pattern is NULL, which WHERE rejects.
ILike(column, pattern) ==
    column.t # "null" /\ LikeMatch(LowerText(pattern), LowerText(column.s))

CondParses(cond) ==
    CASE cond.op = "ILIKE" -> StringConstant(cond.operand).ok
      [] cond.op = "<=" -> NumericConstant(cond.operand).ok
      [] cond.op = "=" -> TRUE

\* Whether a row satisfies one parsed condition; NULL <= m is NULL.
CondHolds(cond, row) ==
    CASE cond.op = "ILIKE" ->
            ILike(row[cond.col], StringConstant(cond.operand).value)
      [] cond.op = "<=" ->
            /\ row[cond.col].t # "null"
            /\ row[cond.col].n <= NumericConstant(cond.operand).value
      [] cond.op = "=" -> TRUE

WhereHolds(where, row) == \A i \in 1..Len(where) : CondHolds(where[i], row)

\* Text order of the name column (C collation: by character code).
CharCode(c) ==
    IF \E i \in Letters : UpperCase[i] = c
    THEN CHOOSE i \in Letters : UpperCase[i] = c
    ELSE IF \E i \in Letters : LowerCase[i] = c
    THEN Len(UpperCase) + (CHOOSE i \in Letters : LowerCase[i] = c)
    ELSE 0

RECURSIVE TextLess(_, _)
TextLess(a, b) ==
    IF b = <<>> THEN FALSE
    ELSE IF a = <<>> THEN TRUE
    ELSE IF Head(a) # Head(b) THEN CharCode(Head(a)) < CharCode(Head(b))
    ELSE TextLess(Tail(a), Tail(b))

\* ORDER BY name names no second key.  Which of two rows with equal names
\* comes first is left to the executor (scan direction, sort method, plan);
\* tie is that choice: "heap" for insertion order, "reverse" for its reverse.
TieOrders == {"heap", "reverse"}

RowBefore(a, b, tie) ==
    \/ TextLess(a.name.s, b.name.s)
    \/ /\ a.name.s = b.name.s
       /\ IF tie = "heap" THEN a.id < b.id ELSE a.id > b.id

OrderByName(rows, tie) ==
    LET n == Len(rows)
        rank(i) == 1 + Cardinality({j \in 1..n : RowBefore(rows[j], rows[i], tie)})
    IN [k \in 1..n |-> rows[CHOOSE i \in 1..n : rank(i) = k]]

Limit(rows, count) == SubSeq(rows, 1, IF Len(rows) < count THEN Len(rows) ELSE count)

RECURSIVE SelectWhere(_, _)
SelectWhere(table, where) ==
    IF table = <<>> THEN <<>>
    ELSE (IF WhereHolds(where, Head(table)) THEN <<Head(table)>> ELSE <<>>)
         \o SelectWhere(Tail(table), where)

-----------------------------------------------------------------------------
(* The catalogue: the tables cat_food_product, ingredient and              *)
(* product_ingredient_association with their two sequences, and the code   *)
(* that writes them.  A product row keeps the columns the modelled code    *)
(* reads (embedding_id is left out); an ingredient row keeps id, name and  *)
(* common_allergens (description and nutritional_value are left out).      *)

MaxProducts == 2     \* rows of a short product file
MaxIngredients == 2  \* ingredients before the API and ingestion add no more
CsvRowCount == 21    \* rows of a long product file

Kitten == <<"K", "i", "t", "t", "e", "n", " ", "(", "1", "-", "1", "2", "m", ")">>
Adult == <<"A", "d", "u", "l", "t">>
Wet == <<"W", "e", "t">>
Dry == <<"D", "r", "y">>
Acana == <<"A">>
Bravo == <<"B">>
BrandAb == <<"A", "b">>
BrandQuote == <<"b", "'">>

\* A ProductCreate without description, ingredient list or ingredient ids.
Body(name, brand, price, food_type, age_group) ==
    [name |-> name, brand |-> brand, price |-> price,
     food_type |-> food_type, age_group |-> age_group,
     description |-> JNull, full_ingredient_list |-> JNull,
     ingredient_ids |-> {}]

ProductBodies ==
    { Body(Acana, BrandAb, JNum(1), JStr(Wet), JStr(Kitten)),
      Body(Acana, BrandQuote, JNum(3), JStr(Dry), JStr(Adult)),
      Body(Bravo, BrandAb, JNull, JNull, JNull),
      Body(Bravo, BrandQuote, JNum(3), JStr(Wet), JNull) }

\* The database as one value.
TablesOf(products, ingredients, associations, productSeq, ingredientSeq) ==
    [store |-> products, ingredient |-> ingredients,
     association |-> associations, nextId |-> productSeq,
     nextIngredientId |-> ingredientSeq]

EmptyTables == TablesOf(<<>>, <<>>, {}, 1, 1)

Ids(table) == {table[i].id : i \in 1..Len(table)}

Link(product_id, ingredient_id) ==
    [product_id |-> product_id, ingredient_id |-> ingredient_id]

\* The fields the schema ProductCreate declares.
ProductCreateFields ==
    {"name", "brand", "price", "age_group", "food_type", "description",
     "full_ingredient_list", "ingredient_ids"}

\* The attributes ProductRepository.create reads from its ProductCreate.
ProductCreateReads ==
    {"name", "brand", "price", "age_group", "food_type", "description",
     "full_ingredient_list", "image_url", "shopping_url", "ingredient_ids"}

\* The row CatFoodProduct(...) of ProductRepository.create, with the two URL
\* columns the schema has no field for.
NewProduct(id, product) ==
    [id |-> id, name |-> JStr(product.name), brand |-> JStr(product.brand),
     price |-> product.price, food_type |-> product.food_type,
     age_group |-> product.age_group, description |-> product.description,
     full_ingredient_list |-> product.full_ingredient_list,
     image_url |-> JNull, shopping_url |-> JNull]

\* ProductRepository.create: reading an attribute the pydantic model does not
\* declare raises AttributeError, before the session is touched.  Otherwise
\* the product is inserted with the ingredients that exist among
\* ingredient_ids.
ProductRepository_create(product, tables) ==
    IF ~(ProductCreateReads \subseteq ProductCreateFields)
    THEN [raised |-> TRUE, tables |-> tables]
    ELSE [raised |-> FALSE,
          tables |-> [tables EXCEPT
              !.store = Append(@, NewProduct(tables.nextId, product)),
              !.association = @ \cup
                  {Link(tables.nextId, i) :
                      i \in product.ingredient_ids \cap Ids(tables.ingredient)},
              !.nextId = @ + 1]]

\* IngredientRepository.create: INSERT and commit.  The name is unique; the
\* sequence keeps the value it handed out when the INSERT is rejected.
IngredientRepository_create(name, common_allergens, tables) ==
    IF \E i \in 1..Len(tables.ingredient) : tables.ingredient[i].name = JStr(name)
    THEN [raised |-> TRUE,
          tables |-> [tables EXCEPT !.nextIngredientId = @ + 1]]
    ELSE [raised |-> FALSE,
          tables |-> [tables EXCEPT
              !.ingredient = Append(@, [id |-> tables.nextIngredientId,
                                        name |-> JStr(name),
                                        common_allergens |-> common_allergens]),
              !.nextIngredientId = @ + 1]]

\* str.strip() for the white space the model's texts hold: the blank.
RECURSIVE LStrip(_)
LStrip(text) ==
    IF text # <<>> /\ Head(text) = " " THEN LStrip(Tail(text)) ELSE text

RECURSIVE RStrip(_)
RStrip(text) ==
    IF text # <<>> /\ text[Len(text)] = " "
    THEN RStrip(SubSeq(text, 1, Len(text) - 1)) ELSE text

Strip(text) == RStrip(LStrip(text))

\* str.split(sep) for a one-character separator.
RECURSIVE Split(_, _, _)
Split(text, sep, acc) ==
    IF text = <<>> THEN <<acc>>
    ELSE IF Head(text) = sep THEN <<acc>> \o Split(Tail(text), sep, <<>>)
    ELSE Split(Tail(text), sep, Append(acc, Head(text)))

RECURSIVE NonEmpty(_)
NonEmpty(texts) ==
    IF texts = <<>> THEN <<>>
    ELSE (IF Head(texts) # <<>> THEN <<Head(texts)>> ELSE <<>>)
         \o NonEmpty(Tail(texts))

\* IngestionService.parse_ingredient_list.
parse_ingredient_list(raw_ingredients) ==
    IF raw_ingredients = <<>> THEN <<>>
    ELSE LET parts == Split(raw_ingredients, ",", <<>>)
         IN NonEmpty([i \in 1..Len(parts) |-> Strip(parts[i])])

\* IngredientRepository.get_by_name: the rows whose name is exactly the text.
get_by_name(name, tables) ==
    {i \in 1..Len(tables.ingredient) : tables.ingredient[i].name = JStr(name)}

\* The service returning only the ingredients it created.
RECURSIVE get_or_create_ingredients_created_only(_, _, _)
get_or_create_ingredients_created_only(names, tables, ingredients) ==
    IF names = <<>> THEN [tables |-> tables, ingredients |-> ingredients]
    ELSE LET name == Strip(Head(names))
             found == get_by_name(name, tables)
             created == IngredientRepository_create(name, JNull, tables).tables
         IN IF name = <<>> \/ found # {}
            THEN get_or_create_ingredients_created_only(Tail(names), tables,
                                                        ingredients)
            ELSE get_or_create_ingredients_created_only(
                     Tail(names), created,
                     Append(ingredients,
                            created.ingredient[Len(created.ingredient)]))

\* IngredientService.get_or_create_ingredients: each name is stripped, a
\* blank one is passed over, the others are looked up exactly, and created
\* (and committed) when they are not there; the ingredient found or created
\* is appended to the list returned.
RECURSIVE get_or_create_ingredients(_, _, _)
get_or_create_ingredients(names, tables, ingredients) ==
    IF names = <<>> THEN [tables |-> tables, ingredients |-> ingredients]
    ELSE LET name == Strip(Head(names))
             found == get_by_name(name, tables)
             created == IngredientRepository_create(name, JNull, tables).tables
         IN IF name = <<>>
            THEN get_or_create_ingredients(Tail(names), tables, ingredients)
            ELSE IF found # {}
            THEN get_or_create_ingredients(
                     Tail(names), tables,
                     Append(ingredients,
                            tables.ingredient[CHOOSE i \in found : TRUE]))
            ELSE get_or_create_ingredients(
                     Tail(names), created,
                     Append(ingredients,
                            created.ingredient[Len(created.ingredient)]))

\* A row of an ingestion CSV file as csv.DictReader yields it: every value a
\* string, the empty one for an empty cell.
CsvRow(name, brand, price, food_type, age_group, full_ingredient_list) ==
    [name |-> name, brand |-> brand, price |-> price, food_type |-> food_type,
     age_group |-> age_group, description |-> <<>>,
     full_ingredient_list |-> full_ingredient_list]

\* float(text): blanks around the number are allowed, the empty text and text
\* that is no number raise ValueError.  The prices of the model are whole
\* numbers, written with or without a fraction of zeros.
PyFloat(text) ==
    LET parts == Split(Strip(text), ".", <<>>)
        whole == NumericConstant(parts[1])
        ok == /\ whole.ok
              /\ Len(parts) <= 2
              /\ Len(parts) = 2 =>
                    /\ parts[2] # <<>>
                    /\ \A i \in 1..Len(parts[2]) : parts[2][i] = "0"
    IN [ok |-> ok, value |-> IF ok THEN whole.value ELSE 0]

\* The rest of ingest_product_from_row once the ingredients are there:
\* float(row["price"]) raises on text that is no number, and otherwise the
\* product goes to ProductRepository.create.
create_from_row(row, ingredients, tables) ==
    LET price == PyFloat(row.price)
        product_data ==
            [Body(row.name, row.brand, JNum(price.value), JStr(row.food_type),
                  JStr(row.age_group))
             EXCEPT !.description = JStr(row.description),
                    !.full_ingredient_list = JStr(row.full_ingredient_list),
                    !.ingredient_ids =
                        {ingredients[k].id : k \in 1..Len(ingredients)}]
    IN IF ~price.ok THEN [raised |-> TRUE, tables |-> tables]
       ELSE ProductRepository_create(product_data, tables)

\* IngestionService.ingest_product_from_row: the ingredients are looked up
\* or created first, each creation with its own commit; then the product is
\* created.
ingest_product_from_row(row, tables) ==
    LET ingredient_names == parse_ingredient_list(row.full_ingredient_list)
        ingredients == get_or_create_ingredients(ingredient_names, tables, <<>>)
    IN create_from_row(row, ingredients.ingredients, ingredients.tables)

\* The loop ending at the first row that raises.
RECURSIVE ingest_csv_content_stop_at_error(_, _, _)
ingest_csv_content_stop_at_error(rows, tables, products_created) ==
    IF rows = <<>> THEN [tables |-> tables, products_created |-> products_created]
    ELSE LET r == ingest_product_from_row(Head(rows), tables)
         IN IF r.raised
            THEN [tables |-> r.tables, products_created |-> products_created]
            ELSE ingest_csv_content_stop_at_error(Tail(rows), r.tables,
                                                  products_created + 1)

\* IngestionService.ingest_csv_content: row by row; a row that raises is
\* skipped, what it committed before raising stays.
RECURSIVE ingest_csv_content(_, _, _)
ingest_csv_content(rows, tables, products_created) ==
    IF rows = <<>> THEN [tables |-> tables, products_created |-> products_created]
    ELSE LET r == ingest_product_from_row(Head(rows), tables)
         IN ingest_csv_content(Tail(rows), r.tables,
                               IF r.raised THEN products_created
                               ELSE products_created + 1)

-----------------------------------------------------------------------------
(* src/scripts/import_products_from_excel.py.  The sheet has the columns   *)
(* the module's docstring names, so each header is matched to its own      *)
(* column; a cell is NaN (an empty cell), text, or a number.               *)

\* `needle in text`
Contains(text, needle) ==
    \E i \in 0..(Len(text) - Len(needle)) :
        SubSeq(text, i + 1, i + Len(needle)) = needle

ContainsAny(text, needles) == \E needle \in needles : Contains(text, needle)

\* str.replace(old, "") for a one-character old.
RECURSIVE Remove(_, _)
Remove(text, old) ==
    IF text = <<>> THEN <<>>
    ELSE (IF Head(text) = old THEN <<>> ELSE <<Head(text)>>)
         \o Remove(Tail(text), old)

\* ", ".join(parts)
RECURSIVE CommaSpaceJoin(_)
CommaSpaceJoin(parts) ==
    IF parts = <<>> THEN <<>>
    ELSE IF Len(parts) = 1 THEN Head(parts)
    ELSE Head(parts) \o <<",", " ">> \o CommaSpaceJoin(Tail(parts))

brand_patterns ==
    <<
      <<"W", "y", "s", "o", "n", "g">>,
      <<"P", "r", "i", "m", "a", "l">>,
      <<"Z", "I", "W", "I", " ", "P", "e", "a", "k">>,
      <<"Z", "i", "w", "i", "P", "e", "a", "k">>,
      <<"D", "r", ".", " ", "E", "l", "s", "e", "y", "'", "s">>,
      <<"D", "r", " ", "E", "l", "s", "e", "y", "'", "s">>,
      <<"G", "o", "!">>,
      <<"F", "a", "r", "m", "i", "n", "a">>,
      <<"F", "r", "o", "m", "m">>,
      <<"T", "h", "e", " ", "H", "o", "n", "e", "s", "t", " ", "K", "i", "t",
        "c", "h", "e", "n">>,
      <<"C", "a", "t", "i", "t", " ", "G", "o", "l", "d", " ", "F", "e", "r",
        "n">>,
      <<"O", "n", "l", "y", " ", "N", "a", "t", "u", "r", "a", "l", " ", "P",
        "e", "t">>,
      <<"I", "n", "s", "t", "i", "n", "c", "t">>,
      <<"W", "e", "l", "l", "n", "e", "s", "s">>,
      <<"A", "d", "d", "i", "c", "t", "i", "o", "n">>,
      <<"N", "u", "l", "o">>,
      <<"L", "i", "f", "e", "'", "s", " ", "A", "b", "u", "n", "d", "a", "n",
        "c", "e">>,
      <<"T", "i", "k", "i", " ", "C", "a", "t">>,
      <<"I", " ", "A", "n", "d", " ", "L", "o", "v", "e", " ", "A", "n", "d",
        " ", "Y", "o", "u">>,
      <<"E", "s", "s", "e", "n", "c", "e">>,
      <<"F", "e", "l", "i", "n", "e", " ", "N", "a", "t", "u", "r", "a", "l">>,
      <<"A", "l", "m", "o", " ", "N", "a", "t", "u", "r", "e">>,
      <<"F", "u", "s", "s", "i", "e", " ", "C", "a", "t">>,
      <<"A", "m", "e", "r", "i", "c", "a", "n", " ", "J", "o", "u", "r", "n",
        "e", "y">>,
      <<"B", "f", "f">>,
      <<"C", "a", "t", "s", " ", "I", "n", " ", "T", "h", "e", " ", "K", "i",
        "t", "c", "h", "e", "n">>,
      <<"S", "t", "e", "l", "l", "a", " ", "&", " ", "C", "h", "e", "w", "y",
        "s">>,
      <<"H", "o", "u", "n", "d", " ", "&", " ", "G", "a", "t", "o", "s">>
    >>

\* extract_brand_from_name: the first pattern the name holds, in any case;
\* else the first word, with the second when the first is "the".
extract_brand_from_name(name) ==
    LET name_lower == LowerText(name)
        hits == {i \in 1..Len(brand_patterns) :
                    Contains(name_lower, LowerText(brand_patterns[i]))}
        words == NonEmpty(Split(name, " ", <<>>))
    IN IF name = <<>> THEN <<"U", "n", "k", "n", "o", "w", "n">>
       ELSE IF hits # {}
       THEN brand_patterns[CHOOSE i \in hits : \A j \in hits : i <= j]
       ELSE IF words = <<>> THEN <<"U", "n", "k", "n", "o", "w", "n">>
       ELSE IF LowerText(words[1]) = <<"t", "h", "e">> /\ Len(words) > 1
       THEN words[1] \o <<" ">> \o words[2]
       ELSE words[1]

\* normalize_food_type: Wet, Dry or Dessert, or None (here the empty text,
\* which is what `food_type or ""` writes for it).
normalize_food_type(food_type) ==
    LET food_type_lower == Strip(LowerText(food_type))
    IN IF food_type = <<>> THEN <<>>
       ELSE IF ContainsAny(food_type_lower,
                           { <<"w", "e", "t">>,
                             <<"c", "a", "n", "n", "e", "d">>,
                             <<"p", "o", "u", "c", "h">> })
       THEN Wet
       ELSE IF ContainsAny(food_type_lower,
                           {<<"d", "r", "y">>, <<"k", "i", "b", "b", "l", "e">>})
       THEN Dry
       ELSE IF ContainsAny(food_type_lower,
                           { <<"d", "e", "s", "s", "e", "r", "t">>,
                             <<"t", "r", "e", "a", "t">> })
       THEN <<"D", "e", "s", "s", "e", "r", "t">>
       ELSE IF ContainsAny(food_type_lower,
                           { <<"f", "r", "e", "e", "z", "e">>,
                             <<"a", "i", "r", "-", "d", "r", "i", "e", "d">>,
                             <<"d", "e", "h", "y", "d", "r", "a", "t", "e", "d">> })
       THEN Dry
       ELSE <<>>

\* infer_food_type_from_name
infer_food_type_from_name(name) ==
    LET name_lower == LowerText(name)
    IN IF name = <<>> THEN <<>>
       ELSE IF ContainsAny(name_lower,
                           { <<"w", "e", "t">>,
                             <<"c", "a", "n", "n", "e", "d">>,
                             <<"p", "o", "u", "c", "h">>,
                             <<"p", "a", "t", "e">>,
                             <<"g", "r", "a", "v", "y">>,
                             <<"b", "r", "o", "t", "h">>,
                             <<"s", "t", "e", "w">> })
       THEN Wet
       ELSE IF ContainsAny(name_lower,
                           { <<"d", "r", "y">>,
                             <<"k", "i", "b", "b", "l", "e">>,
                             <<"f", "r", "e", "e", "z", "e", "-", "d", "r", "i", "e", "d">>,
                             <<"a", "i", "r", "-", "d", "r", "i", "e", "d">>,
                             <<"d", "e", "h", "y", "d", "r", "a", "t", "e", "d">> })
       THEN Dry
       ELSE IF ContainsAny(name_lower,
                           { <<"t", "r", "e", "a", "t">>,
                             <<"d", "e", "s", "s", "e", "r", "t">>,
                             <<"s", "n", "a", "c", "k">> })
       THEN <<"D", "e", "s", "s", "e", "r", "t">>
       ELSE <<>>

\* A row of the sheet.
ExcelRow(name, brand, price, ingredients, details, age_group, food_type,
         image_url, shopping_url) ==
    [name |-> name, brand |-> brand, price |-> price,
     ingredients |-> ingredients, details |-> details,
     age_group |-> age_group, food_type |-> food_type,
     image_url |-> image_url, shopping_url |-> shopping_url]

\* pd.notna(cell)
NotNa(cell) == cell.t # "null"

\* str(cell).strip() of a cell that is there, "" otherwise (which is also
\* what `value or ""` writes for None).
CellText(cell) == IF NotNa(cell) THEN Strip(PyStr(cell)) ELSE <<>>

\* The price cell: text loses "$" and "," and goes through float(), a number
\* is taken as it is; text that is no number gives None.  `price or ""` then
\* writes nothing for None and for 0.0, and the float as str() prints it
\* otherwise.
ExcelPrice(cell) ==
    LET parsed == IF cell.t = "str"
                  THEN PyFloat(Remove(Remove(cell.s, "$"), ","))
                  ELSE [ok |-> cell.t = "num", value |-> cell.n]
    IN IF ~NotNa(cell) \/ ~parsed.ok \/ parsed.value = 0 THEN <<>>
       ELSE PyFloatStr(JNum(parsed.value))

\* The ingredient cell: split at "," or else ";" or else a line break, the
\* parts stripped and joined with ", ".
ExcelIngredients(cell) ==
    LET ingredients_str == CellText(cell)
        parts(sep) ==
            LET split == Split(ingredients_str, sep, <<>>)
            IN NonEmpty([i \in 1..Len(split) |-> Strip(split[i])])
    IN IF Contains(ingredients_str, <<",">>) THEN CommaSpaceJoin(parts(","))
       ELSE IF Contains(ingredients_str, <<";">>) THEN CommaSpaceJoin(parts(";"))
       ELSE IF Contains(ingredients_str, <<"\n">>) THEN CommaSpaceJoin(parts("\n"))
       ELSE ingredients_str

\* excel_to_csv_string followed by csv.DictReader: one CSV row for every
\* sheet row whose name is not empty, every value a string.
RECURSIVE excel_to_csv_string(_)
excel_to_csv_string(df) ==
    IF df = <<>> THEN <<>>
    ELSE LET row == Head(df)
             name == CellText(row.name)
             written ==
                 [name |-> name,
                  brand |-> IF NotNa(row.brand) THEN CellText(row.brand)
                            ELSE extract_brand_from_name(name),
                  price |-> ExcelPrice(row.price),
                  age_group |-> CellText(row.age_group),
                  food_type |-> IF NotNa(row.food_type)
                                THEN normalize_food_type(PyStr(row.food_type))
                                ELSE infer_food_type_from_name(name),
                  description |-> CellText(row.details),
                  full_ingredient_list |-> ExcelIngredients(row.ingredients),
                  image_url |-> CellText(row.image_url),
                  shopping_url |-> CellText(row.shopping_url)]
         IN (IF name = <<>> THEN <<>> ELSE <<written>>)
            \o excel_to_csv_string(Tail(df))

\* import_from_excel: the sheet is converted and handed to
\* IngestionService.ingest_csv_content.
import_from_excel(df, tables) ==
    ingest_csv_content(excel_to_csv_string(df), tables, 0)

-----------------------------------------------------------------------------
(* DELETE statements and the transactions the deletion paths run.  The     *)
(* foreign keys of product_ingredient_association are checked when a       *)
(* statement ends: a DELETE that would leave an association row without    *)
(* its product or its ingredient is rejected, and the transaction with it. *)

\* DELETE FROM product_ingredient_association WHERE product_id IN (ids)
DeleteAssociations(ids) ==
    [table |-> "product_ingredient_association", where |-> "in", ids |-> ids]

\* DELETE FROM cat_food_product WHERE id IN (ids)
DeleteProducts(ids) ==
    [table |-> "cat_food_product", where |-> "in", ids |-> ids]

\* DELETE FROM ingredient i WHERE NOT EXISTS (SELECT 1 FROM
\* product_ingredient_association pia WHERE pia.ingredient_id = i.id)
DeleteOrphanIngredients ==
    [table |-> "ingredient", where |-> "orphan", ids |-> {}]

\* DELETE FROM <table>
DeleteAll(table) == [table |-> table, where |-> "all", ids |-> {}]

RECURSIVE Without(_, _)
Without(table, ids) ==
    IF table = <<>> THEN <<>>
    ELSE (IF Head(table).id \in ids THEN <<>> ELSE <<Head(table)>>)
         \o Without(Tail(table), ids)

Execute(stmt, tables) ==
    LET linkedProducts == {a.product_id : a \in tables.association}
        linkedIngredients == {a.ingredient_id : a \in tables.association}
        ids == CASE stmt.where = "in" -> stmt.ids
                 [] stmt.where = "all" /\ stmt.table = "cat_food_product" ->
                        Ids(tables.store)
                 [] stmt.where = "all" /\ stmt.table = "ingredient" ->
                        Ids(tables.ingredient)
                 [] stmt.where = "orphan" ->
                        Ids(tables.ingredient) \ linkedIngredients
                 [] OTHER -> {}
    IN CASE stmt.table = "product_ingredient_association" ->
               [error |-> "",
                tables |-> [tables EXCEPT !.association =
                    IF stmt.where = "all" THEN {}
                    ELSE {a \in @ : a.product_id \notin stmt.ids}]]
         [] stmt.table = "cat_food_product" ->
               IF ids \cap Ids(tables.store) \cap linkedProducts # {}
               THEN [error |-> "IntegrityError", tables |-> tables]
               ELSE [error |-> "",
                     tables |-> [tables EXCEPT !.store = Without(@, ids)]]
         [] stmt.table = "ingredient" ->
               IF ids \cap linkedIngredients # {}
               THEN [error |-> "IntegrityError", tables |-> tables]
               ELSE [error |-> "",
                     tables |-> [tables EXCEPT !.ingredient = Without(@, ids)]]

\* The statements of one session in order, then commit; the first rejected
\* statement raises out of the session, which rolls back.
RECURSIVE RunStatements(_, _)
RunStatements(stmts, tables) ==
    IF stmts = <<>> THEN [error |-> "", tables |-> tables]
    ELSE LET r == Execute(Head(stmts), tables)
         IN IF r.error # "" THEN r ELSE RunStatements(Tail(stmts), r.tables)

\* What one run of a deletion path did: the statements it sent, whether it
\* raised, and the tables it left.
Ran(stmts, tables) ==
    LET r == RunStatements(stmts, tables)
    IN [stmts |-> stmts, raised |-> r.error # "",
        tables |-> IF r.error # "" THEN tables ELSE r.tables]

NothingRan(tables) == [stmts |-> <<>>, raised |-> FALSE, tables |-> tables]

\* A delete that cascades to the ingredients the product leaves unreferenced.
ProductRepository_delete_cascade(product_id, tables) ==
    IF product_id \notin Ids(tables.store) THEN NothingRan(tables)
    ELSE Ran(<<DeleteAssociations({product_id}), DeleteProducts({product_id}),
               DeleteOrphanIngredients>>,
             tables)

\* ProductRepository.delete: the product is loaded with its ingredients;
\* session.delete then removes its rows of the secondary table before the
\* product row.
ProductRepository_delete(product_id, tables) ==
    IF product_id \notin Ids(tables.store) THEN NothingRan(tables)
    ELSE Ran(<<DeleteAssociations({product_id}), DeleteProducts({product_id})>>,
             tables)

\* DELETE /products/{product_id}: 404 when the repository found no product.
delete_product(product_id, tables) ==
    LET ran == ProductRepository_delete(product_id, tables)
    IN [ran |-> ran, status |-> IF ran.stmts = <<>> THEN 404 ELSE 200]

\* The orphan ingredients removed before the products are.
delete_by_ids_orphans_first(ids, delete_orphan_ingredients, tables) ==
    IF ids = {} THEN NothingRan(tables)
    ELSE Ran((IF delete_orphan_ingredients THEN <<DeleteOrphanIngredients>>
              ELSE <<>>)
             \o <<DeleteAssociations(ids), DeleteProducts(ids)>>,
             tables)

\* _delete_by_ids of delete_products_by_name, delete_products_by_url and
\* delete_products_without_image (the three copies are the same).
delete_by_ids_products_first(ids, delete_orphan_ingredients, tables) ==
    IF ids = {} THEN NothingRan(tables)
    ELSE Ran(<<DeleteProducts(ids), DeleteAssociations(ids)>>
             \o (IF delete_orphan_ingredients THEN <<DeleteOrphanIngredients>>
                 ELSE <<>>),
             tables)

delete_by_ids(ids, delete_orphan_ingredients, tables) ==
    IF ids = {} THEN NothingRan(tables)
    ELSE Ran(<<DeleteAssociations(ids), DeleteProducts(ids)>>
             \o (IF delete_orphan_ingredients THEN <<DeleteOrphanIngredients>>
                 ELSE <<>>),
             tables)

\* The product rows of the tables, as the set a SELECT filters.
ProductRows(tables) == {tables.store[i] : i \in 1..Len(tables.store)}

\* The ids of the selected product rows.
Matching_ids(rows) == {row.id : row \in rows}

\* lower(column) LIKE '%needle%', with coalesce(column, '') when asked.
LowerLike(column, needle, coalesce) ==
    IF column.t = "null"
    THEN coalesce /\ LikeMatch(<<"%">> \o needle \o <<"%">>, <<>>)
    ELSE LikeMatch(<<"%">> \o needle \o <<"%">>, LowerText(column.s))

\* A script that stops with an exception or SystemExit before any statement.
Refused(tables) == [stmts |-> <<>>, raised |-> TRUE, tables |-> tables]

\* delete_products_by_name.main: --contains, --yes,
\* --delete-orphan-ingredients.  The preview only reads.
delete_products_by_name(contains, yes, delete_orphan_ingredients, tables) ==
    LET needle == LowerText(Strip(contains))
        selected(row) == LowerLike(row.name, needle, FALSE)
    IN IF needle = <<>> \/ ~yes THEN NothingRan(tables)
       ELSE delete_by_ids(Matching_ids({row \in ProductRows(tables) : selected(row)}),
                          delete_orphan_ingredients, tables)

\* delete_products_by_url.main with one --contains and no --csv: --field,
\* --yes, --delete-orphan-ingredients.
delete_products_by_url(contains, field, yes, delete_orphan_ingredients, tables) ==
    LET needle == LowerText(Strip(contains))
        selected(row) ==
            \/ field \in {"both", "shopping"}
               /\ LowerLike(row.shopping_url, needle, TRUE)
            \/ field \in {"both", "image"}
               /\ LowerLike(row.image_url, needle, TRUE)
    IN IF needle = <<>> \/ ~yes THEN NothingRan(tables)
       ELSE delete_by_ids(Matching_ids({row \in ProductRows(tables) : selected(row)}),
                          delete_orphan_ingredients, tables)

\* delete_products_without_image.main: image_url IS NULL OR image_url = ''.
delete_products_without_image(yes, delete_orphan_ingredients, tables) ==
    LET selected(row) == row.image_url.t = "null" \/ row.image_url.s = <<>>
        ids == Matching_ids({row \in ProductRows(tables) : selected(row)})
    IN IF ids = {} \/ ~yes THEN NothingRan(tables)
       ELSE delete_by_ids(ids, delete_orphan_ingredients, tables)

\* `value and value.strip()` of a nullable text column.
Filled(column) == column.t = "str" /\ Strip(column.s) # <<>>

MinId(ids) == CHOOSE i \in ids : \A j \in ids : i <= j

\* delete_duplicates of remove_duplicate_products and of
\* remove_duplicate_kitten_products (the two copies are the same).
delete_duplicates(ids_to_delete, tables) ==
    IF ids_to_delete = {} THEN NothingRan(tables)
    ELSE Ran(<<DeleteAssociations(ids_to_delete), DeleteProducts(ids_to_delete)>>,
             tables)

\* The script keeping the lowest id of a group whatever the descriptions.
remove_duplicate_products_lowest_id(yes, tables) ==
    LET rows == tables.store
        key(row) == Strip(LowerText(row.name.s))
        ids_to_delete ==
            {rows[i].id : i \in {j \in 1..Len(rows) :
                \E k \in 1..Len(rows) :
                    key(rows[k]) = key(rows[j]) /\ rows[k].id < rows[j].id}}
    IN IF ids_to_delete = {} \/ ~yes THEN NothingRan(tables)
       ELSE delete_duplicates(ids_to_delete, tables)

\* scripts/remove_duplicate_products.py: products are grouped by
\* name.lower().strip(); of a group of two or more, the lowest id with a
\* description is kept, or the lowest id when none has one.
remove_duplicate_products(yes, tables) ==
    LET rows == tables.store
        key(row) == Strip(LowerText(row.name.s))
        group(row) == {i \in 1..Len(rows) : key(rows[i]) = key(row)}
        keep(row) ==
            LET with_description == {i \in group(row) : Filled(rows[i].description)}
            IN IF with_description # {}
               THEN MinId({rows[i].id : i \in with_description})
               ELSE MinId({rows[i].id : i \in group(row)})
        ids_to_delete ==
            {rows[i].id : i \in {j \in 1..Len(rows) :
                /\ Cardinality(group(rows[j])) > 1
                /\ rows[j].id # keep(rows[j])}}
    IN IF ids_to_delete = {} \/ ~yes THEN NothingRan(tables)
       ELSE delete_duplicates(ids_to_delete, tables)

WordChar(c) ==
    \/ \E i \in Letters : c = UpperCase[i] \/ c = LowerCase[i]
    \/ c \in Digits
    \/ c = "_"

StopWords ==
    { <<"d", "r", "y">>, <<"w", "e", "t">>, <<"c", "a", "n", "n", "e", "d">>,
      <<"k", "i", "b", "b", "l", "e">>, <<"c", "a", "t">>,
      <<"f", "o", "o", "d">>, <<"f", "o", "o", "d", "s">> }

RECURSIVE JoinWords(_)
JoinWords(words) ==
    IF words = <<>> THEN <<>>
    ELSE IF Len(words) = 1 THEN Head(words)
    ELSE Head(words) \o <<" ">> \o JoinWords(Tail(words))

RECURSIVE DropWords(_, _)
DropWords(words, dropped) ==
    IF words = <<>> THEN <<>>
    ELSE (IF Head(words) \in dropped THEN <<>> ELSE <<Head(words)>>)
         \o DropWords(Tail(words), dropped)

\* _normalize_name_for_dedupe: lower case, everything that is no word
\* character becomes a blank, the words dry, wet, canned, kibble, cat, food
\* and foods go, runs of blanks collapse.  (_SIZE_RE needs a digit before a
\* unit; the names of the model hold no digit, so it matches nothing.)
normalize_name_for_dedupe(name) ==
    LET lowered == LowerText(name)
        spaced == [i \in 1..Len(lowered) |->
                      IF WordChar(lowered[i]) THEN lowered[i] ELSE " "]
    IN JoinWords(DropWords(NonEmpty(Split(spaced, " ", <<>>)), StopWords))

\* _score_product
score_product(product) ==
    (IF Filled(product.description) THEN 2 ELSE 0)
    + (IF Filled(product.image_url) THEN 1 ELSE 0)
    + (IF Filled(product.shopping_url) THEN 1 ELSE 0)
    + (IF Filled(product.full_ingredient_list) THEN 1 ELSE 0)
    + (IF product.price.t # "null" THEN 1 ELSE 0)

\* The script keeping the lowest id of a group whatever the scores.
remove_duplicate_kitten_products_lowest_id(yes, tables) ==
    LET rows == tables.store
        kitten == {i \in 1..Len(rows) :
                      LowerLike(rows[i].age_group,
                                <<"k", "i", "t", "t", "e", "n">>, FALSE)}
        key(row) == normalize_name_for_dedupe(row.name.s)
        ids_to_delete ==
            {rows[i].id : i \in {j \in kitten :
                \E k \in kitten :
                    key(rows[k]) = key(rows[j]) /\ rows[k].id < rows[j].id}}
    IN IF ids_to_delete = {} \/ ~yes THEN NothingRan(tables)
       ELSE delete_duplicates(ids_to_delete, tables)

\* remove_duplicate_kitten_products.main: among the products whose age_group
\* holds "kitten", of each group with the same normalized name the highest
\* score is kept, the lowest id among equal scores.
remove_duplicate_kitten_products(yes, tables) ==
    LET rows == tables.store
        kitten == {i \in 1..Len(rows) :
                      LowerLike(rows[i].age_group,
                                <<"k", "i", "t", "t", "e", "n">>, FALSE)}
        key(row) == normalize_name_for_dedupe(row.name.s)
        group(row) == {i \in kitten : key(rows[i]) = key(row)}
        better(a, b) ==
            \/ score_product(a) > score_product(b)
            \/ score_product(a) = score_product(b) /\ a.id < b.id
        ids_to_delete ==
            {rows[i].id : i \in {j \in kitten :
                \E k \in group(rows[j]) : better(rows[k], rows[j])}}
    IN IF ids_to_delete = {} \/ ~yes THEN NothingRan(tables)
       ELSE delete_duplicates(ids_to_delete, tables)

\* `(value or "").strip()` of a nullable text column.
StrippedOrEmpty(column) == IF column.t = "str" THEN Strip(column.s) ELSE <<>>

\* The key sort_and_deduplicate_products groups by.
DuplicateKey(product) ==
    <<StrippedOrEmpty(product.full_ingredient_list),
      StrippedOrEmpty(product.description)>>

\* The script keeping the highest id of a group.
find_and_remove_duplicates_keep_last(tables) ==
    LET rows == tables.store
        duplicate_ids ==
            {rows[i].id : i \in {j \in 1..Len(rows) :
                \E k \in 1..Len(rows) :
                    /\ DuplicateKey(rows[k]) = DuplicateKey(rows[j])
                    /\ rows[k].id > rows[j].id}}
    IN IF duplicate_ids = {} THEN NothingRan(tables)
       ELSE Ran(<<DeleteAssociations(duplicate_ids),
                  DeleteProducts(duplicate_ids)>>, tables)

\* scripts/sort_and_deduplicate_products.py, find_and_remove_duplicates:
\* products are grouped by (full_ingredient_list, description), each with
\* None taken for "" and stripped; of a group of two or more the lowest id
\* is kept, and the others go after their association rows, in one
\* transaction.  The listing that follows only reads.
find_and_remove_duplicates(tables) ==
    LET rows == tables.store
        duplicate_ids ==
            {rows[i].id : i \in {j \in 1..Len(rows) :
                \E k \in 1..Len(rows) :
                    /\ DuplicateKey(rows[k]) = DuplicateKey(rows[j])
                    /\ rows[k].id < rows[j].id}}
    IN IF duplicate_ids = {} THEN NothingRan(tables)
       ELSE Ran(<<DeleteAssociations(duplicate_ids),
                  DeleteProducts(duplicate_ids)>>, tables)

\* main of sort_and_deduplicate_products: the answer to "Continue?
\* (yes/no)" is stripped and lowered; anything but yes or y cancels.
Confirms(response) ==
    LowerText(Strip(response)) \in {<<"y", "e", "s">>, <<"y">>}

sort_and_deduplicate_products(response, tables) ==
    IF ~Confirms(response) THEN NothingRan(tables)
    ELSE find_and_remove_duplicates(tables)

\* The script without its check of --yes.
clear_cat_food_data_unguarded(yes, tables) ==
    Ran(<<DeleteAll("product_ingredient_association"),
          DeleteAll("cat_food_product"), DeleteAll("ingredient")>>,
        tables)

\* clear_cat_food_data._main_async: SystemExit without --yes.
clear_cat_food_data(yes, tables) ==
    IF ~yes THEN Refused(tables)
    ELSE Ran(<<DeleteAll("product_ingredient_association"),
               DeleteAll("cat_food_product"), DeleteAll("ingredient")>>,
             tables)

RollbackKeep == 38

\* rollback_to_38_products(confirm): ValueError without confirm; nothing to do
\* when the table counts 38 rows or fewer; otherwise the products with
\* id > 38 go, their association rows first.
rollback_to_38_products(confirm, tables) ==
    LET current_count == Len(tables.store)
        ids_to_delete == {i \in Ids(tables.store) : i > RollbackKeep}
    IN IF ~confirm THEN Refused(tables)
       ELSE IF current_count <= RollbackKeep \/ ids_to_delete = {}
       THEN NothingRan(tables)
       ELSE Ran(<<DeleteAssociations(ids_to_delete), DeleteProducts(ids_to_delete)>>,
                tables)

\* rollback_to_38_products.main_async: --dry-run lists, no --yes is
\* SystemExit, --yes calls rollback_to_38_products(confirm=True).
rollback_main(yes, dry_run, tables) ==
    IF dry_run THEN NothingRan(tables)
    ELSE IF ~yes THEN Refused(tables)
    ELSE rollback_to_38_products(TRUE, tables)

DogFood == <<"d", "o", "g", " ", "f", "o", "o", "d">>

\* migrations/versions/delete_dog_food_products.py, upgrade(): both
\* statements select LOWER(name) LIKE '%dog food%'.
delete_dog_food_upgrade(tables) ==
    LET selected(row) == LowerLike(row.name, DogFood, FALSE)
        ids == Matching_ids({row \in ProductRows(tables) : selected(row)})
    IN Ran(<<DeleteAssociations(ids), DeleteProducts(ids)>>, tables)

\* reset_and_import.main: refuses without --yes; TRUNCATE ... RESTART
\* IDENTITY CASCADE empties the three tables and resets both sequences;
\* then, unless --wipe-only, the rows of the CSV file are ingested.
reset_and_import(yes, wipe_only, rows, tables) ==
    IF ~yes THEN NothingRan(tables)
    ELSE [stmts |-> <<DeleteAll("product_ingredient_association"),
                      DeleteAll("cat_food_product"), DeleteAll("ingredient")>>,
          raised |-> FALSE,
          tables |-> IF wipe_only THEN EmptyTables
                     ELSE ingest_csv_content(rows, EmptyTables, 0).tables]

-----------------------------------------------------------------------------
(* backup_database and restore_from_backup: the three tables as CSV files, *)
(* written by DataFrame.to_csv and read back by pandas.read_csv.  A file   *)
(* is the sequence of its rows, a row a record of cells, a cell the text   *)
(* between the separators after the CSV quoting is undone.                 *)

\* A cell as to_csv writes it: nothing for None, str() for everything else
\* (a JSONB value arrives from the driver decoded, so a list is written as
\* Python prints it).
ToCsv(v) == IF v.t = "null" THEN <<>> ELSE PyStr(v)

\* The cell of a float column.
ToCsvFloat(v) == IF v.t = "null" THEN <<>> ELSE PyFloatStr(v)

\* The texts read_csv takes for a missing value (its default na_values).
NaValues ==
    { <<>>,
      <<"#", "N", "/", "A">>,
      <<"#", "N", "/", "A", " ", "N", "/", "A">>,
      <<"#", "N", "A">>,
      <<"-", "1", ".", "#", "I", "N", "D">>,
      <<"-", "1", ".", "#", "Q", "N", "A", "N">>,
      <<"-", "N", "a", "N">>,
      <<"-", "n", "a", "n">>,
      <<"1", ".", "#", "I", "N", "D">>,
      <<"1", ".", "#", "Q", "N", "A", "N">>,
      <<"<", "N", "A", ">">>,
      <<"N", "/", "A">>,
      <<"N", "A">>,
      <<"N", "U", "L", "L">>,
      <<"N", "a", "N">>,
      <<"N", "o", "n", "e">>,
      <<"n", "/", "a">>,
      <<"n", "a", "n">>,
      <<"n", "u", "l", "l">> }

\* A text cell as read_csv returns it: NaN for a missing value.
ReadText(cell) == IF cell \in NaValues THEN JNull ELSE JStr(cell)

\* int(row["id"]) of an integer column.
ReadInt(cell) == NumericConstant(cell)

\* float(row["price"]): digits, then an optional fraction of zeros.
ReadFloat(cell) ==
    LET parts == Split(cell, ".", <<>>)
        whole == NumericConstant(parts[1])
        ok == /\ whole.ok
              /\ Len(parts) <= 2
              /\ Len(parts) = 2 =>
                    /\ parts[2] # <<>>
                    /\ \A i \in 1..Len(parts[2]) : parts[2][i] = "0"
    IN IF cell \in NaValues THEN JNull
       ELSE IF ok THEN JNum(whole.value)
       ELSE JStr(cell)

\* json.loads of a cell holding an array: [] or ["text"].  Anything else is
\* a JSONDecodeError, which the restore turns into None.
ReadJson(cell) ==
    LET n == Len(cell)
    IN IF cell \in NaValues THEN JNull
       ELSE IF cell = <<"[", "]">> THEN JList(0, <<>>)
       ELSE IF /\ n >= 4
               /\ cell[1] = "[" /\ cell[2] = "\"" /\ cell[n - 1] = "\"" /\ cell[n] = "]"
               /\ \A i \in 3..(n - 2) : cell[i] # "\""
       THEN JList(1, SubSeq(cell, 3, n - 2))
       ELSE JNull

ProductCsv(row) ==
    [id |-> IntChars(row.id), name |-> ToCsv(row.name), brand |-> ToCsv(row.brand),
     price |-> ToCsvFloat(row.price), food_type |-> ToCsv(row.food_type),
     age_group |-> ToCsv(row.age_group), description |-> ToCsv(row.description),
     full_ingredient_list |-> ToCsv(row.full_ingredient_list),
     image_url |-> ToCsv(row.image_url), shopping_url |-> ToCsv(row.shopping_url)]

IngredientCsv(row) ==
    [id |-> IntChars(row.id), name |-> ToCsv(row.name),
     common_allergens |-> ToCsv(row.common_allergens)]

AssociationCsv(row) ==
    [product_id |-> IntChars(row.product_id),
     ingredient_id |-> IntChars(row.ingredient_id)]

\* backup_database: SELECT * of each table into its file.
backup_database(tables) ==
    [cat_food_product |->
         [i \in 1..Len(tables.store) |-> ProductCsv(tables.store[i])],
     ingredient |->
         [i \in 1..Len(tables.ingredient) |-> IngredientCsv(tables.ingredient[i])],
     product_ingredient_association |->
         {AssociationCsv(a) : a \in tables.association}]

\* CatFoodProduct(...) of one row of cat_food_product.csv.
ProductOfCsv(row) ==
    [id |-> ReadInt(row.id).value, name |-> ReadText(row.name),
     brand |-> ReadText(row.brand), price |-> ReadFloat(row.price),
     food_type |-> ReadText(row.food_type), age_group |-> ReadText(row.age_group),
     description |-> ReadText(row.description),
     full_ingredient_list |-> ReadText(row.full_ingredient_list),
     image_url |-> ReadText(row.image_url),
     shopping_url |-> ReadText(row.shopping_url)]

\* Ingredient(...) of one row of ingredient.csv.
IngredientOfCsv(row) ==
    [id |-> ReadInt(row.id).value, name |-> ReadText(row.name),
     common_allergens |-> ReadJson(row.common_allergens)]

AssociationOfCsv(row) ==
    Link(ReadInt(row.product_id).value, ReadInt(row.ingredient_id).value)

MaxOf(ids) == CHOOSE i \in ids : \A j \in ids : j <= i

\* No key comes twice in a sequence of keys.
Distinct(keys) ==
    \A i, j \in 1..Len(keys) : keys[i] = keys[j] => i = j

\* The INSERTs of the ingredient rows are rejected when an id cell is no
\* integer, a name is missing (NaN is no text, and the column is NOT NULL) or
\* an id or a name comes twice.
InsertIngredients(rows, tables) ==
    LET new == [i \in 1..Len(rows) |-> IngredientOfCsv(rows[i])]
        id == [i \in 1..Len(new) |-> new[i].id]
        name == [i \in 1..Len(new) |-> new[i].name]
        ok == /\ \A i \in 1..Len(rows) : ReadInt(rows[i].id).ok
              /\ \A i \in 1..Len(new) : new[i].name.t = "str"
              /\ Distinct(id) /\ Distinct(name)
    IN IF ~ok THEN [raised |-> TRUE, tables |-> tables]
       ELSE [raised |-> FALSE,
             tables |-> [tables EXCEPT
                 !.ingredient = new,
                 !.nextIngredientId =
                     IF new = <<>> THEN @ ELSE MaxOf(Ids(new)) + 1]]

\* The same for the product rows: name and brand are NOT NULL, and a price
\* cell that is no number cannot be bound to the float column.
InsertProducts(rows, tables) ==
    LET new == [i \in 1..Len(rows) |-> ProductOfCsv(rows[i])]
        id == [i \in 1..Len(new) |-> new[i].id]
        ok == /\ \A i \in 1..Len(rows) : ReadInt(rows[i].id).ok
              /\ \A i \in 1..Len(new) :
                    /\ new[i].name.t = "str"
                    /\ new[i].brand.t = "str"
                    /\ new[i].price.t # "str"
              /\ Distinct(id)
    IN IF ~ok THEN [raised |-> TRUE, tables |-> tables]
       ELSE [raised |-> FALSE,
             tables |-> [tables EXCEPT
                 !.store = new,
                 !.nextId = IF new = <<>> THEN @ ELSE MaxOf(Ids(new)) + 1]]

\* INSERT ... ON CONFLICT DO NOTHING of the association rows: rejected when a
\* row names a product or an ingredient that is not there.
InsertAssociations(rows, tables) ==
    LET new == {AssociationOfCsv(row) : row \in rows}
        ok == /\ \A row \in rows :
                    ReadInt(row.product_id).ok /\ ReadInt(row.ingredient_id).ok
              /\ \A a \in new :
                    /\ a.product_id \in Ids(tables.store)
                    /\ a.ingredient_id \in Ids(tables.ingredient)
    IN IF ~ok THEN [raised |-> TRUE, tables |-> tables]
       ELSE [raised |-> FALSE,
             tables |-> [tables EXCEPT !.association = @ \cup new]]

\* restore_from_backup: the three tables are emptied and that is committed;
\* then ingredients, products and associations are inserted, each step with
\* its own commit.  A step that raises ends the restore and leaves what the
\* steps before it committed.
restore_from_backup(backup_dir, tables) ==
    LET cleared == Ran(<<DeleteAll("product_ingredient_association"),
                         DeleteAll("cat_food_product"), DeleteAll("ingredient")>>,
                       tables).tables
        ingredients == InsertIngredients(backup_dir.ingredient, cleared)
        products == InsertProducts(backup_dir.cat_food_product, ingredients.tables)
        associations ==
            InsertAssociations(backup_dir.product_ingredient_association,
                               products.tables)
    IN IF ingredients.raised THEN ingredients
       ELSE IF products.raised THEN products
       ELSE associations
-----------------------------------------------------------------------------
(* The statement on its way through psycopg2, which sends the text as one  *)
(* simple query: the server parses the whole text and then runs its        *)
(* statements one after the other.                                         *)

\* The database during one request: reachable throughout ("up"), reachable
\* when the service is constructed but not when the query runs ("lost"), or
\* unreachable from the start ("down").
DbStates == {"up", "lost", "down"}

\* A run of characters that an operand may hold as one element, because the
\* server reads it as whole tokens: it ends the statement and begins others.
StackedDelete == "; DELETE FROM product_ingredient_association; COMMIT; SELECT "

\* Position of the quote that closes the string constant opened at
\* position 1 ('' inside it is one quote), 0 when nothing closes it.
RECURSIVE CloseQuote(_, _)
CloseQuote(text, i) ==
    IF i > Len(text) THEN 0
    ELSE IF text[i] = "'"
         THEN IF i < Len(text) /\ text[i + 1] = "'"
              THEN CloseQuote(text, i + 2)
              ELSE i
         ELSE CloseQuote(text, i + 1)

\* An ILIKE operand whose string constant ends early and is followed by
\* further statements and the opening of another string constant, which the
\* operand's own last characters complete: the text then holds the SELECT up
\* to that condition, the further statements, and a last SELECT that takes
\* the rest of the original statement.
Stacks(cond) ==
    LET close == CloseQuote(cond.operand, 2)
        rest == SubSeq(cond.operand, close + 1, Len(cond.operand))
    IN /\ cond.op = "ILIKE"
       /\ close # 0
       /\ rest # <<>>
       /\ Head(rest) = StackedDelete
       /\ StringConstant(Tail(rest)).ok

\* The statements of the text that ran and were committed before the text's
\* last statement was rejected (SELECT '%' ... ORDER BY name: no such
\* column): the conditions before the stacking one must stand, since the
\* first SELECT has to run.
Committed(sql) ==
    IF \E k \in 1..Len(sql.where) :
          /\ Stacks(sql.where[k])
          /\ \A i \in 1..(k - 1) : CondParses(sql.where[i])
    THEN <<DeleteAll("product_ingredient_association")>>
    ELSE <<>>

\* engine.connect() and conn.execute(text(sql)).fetchall(): the rows, or the
\* exception the driver raises, and the tables as the text left them.
ExecuteQuery(sql, tables, db, tie) ==
    IF db # "up"
    THEN [error |-> "OperationalError", rows |-> <<>>, tables |-> tables]
    ELSE IF \E i \in 1..Len(sql.where) : ~CondParses(sql.where[i])
    THEN [error |-> "ProgrammingError", rows |-> <<>>,
          tables |-> RunStatements(Committed(sql), tables).tables]
    ELSE LET selected == SelectWhere(tables.store, sql.where)
         IN [error |-> "",
             rows |-> Limit(IF sql.order_by = "name"
                            THEN OrderByName(selected, tie)
                            ELSE selected,
                            sql.limit),
             tables |-> tables]

-----------------------------------------------------------------------------
(* SearchService.search and the endpoint search_controller.search.         *)

NoProductsFound == <<<<"No products found matching your criteria.">>>>

\* f"Found {len(rows)} product(s):\n" joined to the product lines by "\n":
\* the header line and, from its own trailing newline, an empty line.
HeaderLines(count) == << <<"Found ">> \o IntChars(count) \o <<" product(s):">>, <<>> >>

\* f"- {row.name} by {row.brand} (${row.price}) - {row.food_type} food for {row.age_group}"
ProductLine(row) ==
    <<"- ">> \o PyStr(row.name) \o <<" by ">> \o PyStr(row.brand)
    \o <<" ($">> \o PyFloatStr(row.price) \o <<") - ">> \o PyStr(row.food_type)
    \o <<" food for ">> \o PyStr(row.age_group)

\* The formatting without its `if not rows` branch.
FormatRows_always_header(rows) ==
    HeaderLines(Len(rows)) \o [i \in 1..Len(rows) |-> ProductLine(rows[i])]

RECURSIVE Priced(_)
Priced(rows) ==
    IF rows = <<>> THEN <<>>
    ELSE (IF Head(rows).price.t = "null" THEN <<>> ELSE <<Head(rows)>>)
         \o Priced(Tail(rows))

\* The formatting leaving out the products that have no price.
FormatRows_skip_null(rows) ==
    IF rows = <<>> THEN NoProductsFound
    ELSE HeaderLines(Len(rows))
         \o [i \in 1..Len(Priced(rows)) |-> ProductLine(Priced(rows)[i])]

FormatRows(rows) ==
    IF rows = <<>> THEN NoProductsFound
    ELSE HeaderLines(Len(rows)) \o [i \in 1..Len(rows) |-> ProductLine(rows[i])]

NoSql == [where |-> <<>>, order_by |-> "", limit |-> 0]

\* SearchService(): SQLDatabase(engine, include_tables=...) reflects the
\* tables, so the constructor raises when the database cannot be reached.
SearchService_init(db) == [raised |-> db = "down"]

\* The outbound calls of one search, in order, with a second attempt after a
\* failed query.
CallTrace_retry(llm_raised, db_error) ==
    IF llm_raised THEN <<"llm">>
    ELSE IF db_error # "" THEN <<"llm", "db", "db">>
    ELSE <<"llm", "db">>

\* The outbound calls of one search, in order: Settings.llm.complete in
\* _extract_search_params, then conn.execute unless the completion raised.
CallTrace(llm_raised, db_error) ==
    IF llm_raised THEN <<"llm">> ELSE <<"llm", "db">>

\* One call of search(query): what it extracted, built, executed and
\* returned, or the exception that left it, and the tables afterwards.
\* Nothing in it awaits, so the call runs from its first line to its last
\* without interleaving.
search(response, tables, db, tie) ==
    LET extracted == extract_search_params(response)
        sql == build_sql_query(extracted.params)
        executed == ExecuteQuery(sql, tables, db, tie)
    IN IF extracted.raised
       THEN [exception |-> "LLMError", params |-> EmptyDict, sql |-> NoSql,
             queried |-> FALSE, rows |-> <<>>, result |-> <<>>,
             trace |-> CallTrace(TRUE, ""), tables |-> tables]
       ELSE IF executed.error # ""
       THEN [exception |-> executed.error, params |-> extracted.params,
             sql |-> sql, queried |-> TRUE, rows |-> <<>>, result |-> <<>>,
             trace |-> CallTrace(FALSE, executed.error),
             tables |-> executed.tables]
       ELSE [exception |-> "", params |-> extracted.params, sql |-> sql,
             queried |-> TRUE, rows |-> executed.rows,
             result |-> FormatRows(executed.rows),
             trace |-> CallTrace(FALSE, ""), tables |-> executed.tables]

\* The endpoint answering an exception with an empty result.
SearchEndpoint_swallow(call) ==
    IF call.exception # ""
    THEN [status |-> 200, result |-> NoProductsFound, detail |-> ""]
    ELSE [status |-> 200, result |-> call.result, detail |-> ""]

\* POST /search: SearchResponse(result=...), or HTTPException(500, str(e)).
\* (The rate limiter in front of the endpoint is left out.)
SearchEndpoint(call) ==
    IF call.exception # ""
    THEN [status |-> 500, result |-> <<>>, detail |-> call.exception]
    ELSE [status |-> 200, result |-> call.result, detail |-> ""]

\* The answer to an exception raised outside the endpoint's try block, in
\* the dependency get_search_service.
InternalServerError ==
    [status |-> 500, result |-> <<>>, detail |-> "Internal Server Error"]

-----------------------------------------------------------------------------
(* The answers the model may give.                                         *)

FoodTypeValues == {JStr(<<>>), JStr(<<"w", "e", "t">>), JStr(<<"_">>)}
AgeGroupValues == {JStr(<<"k", "i", "t", "t", "e", "n">>)}
BrandValues == {JNull, JStr(<<"a", "B">>), JStr(<<"z">>), JStr(<<"'">>)}
MaxPriceValues == {JNum(0), JNum(2), JNum(-1), JStr(<<"x">>)}

Opt(key, values) == {<<>>} \cup {<<Member(key, v)>> : v \in values}

MemberLists ==
    { a \o b \o c \o d : a \in Opt("food_type", FoodTypeValues),
                         b \in Opt("age_group", AgeGroupValues),
                         c \in Opt("brand", BrandValues),
                         d \in Opt("max_price", MaxPriceValues) } \ {<<>>}

RECURSIVE CommaJoin(_)
CommaJoin(members) ==
    IF Len(members) <= 1 THEN members
    ELSE <<Head(members), Tok(",")>> \o CommaJoin(Tail(members))

ObjectText(members) == <<Tok("{")>> \o CommaJoin(members) \o <<Tok("}")>>

Wrapped(text) == <<Tok("prose")>> \o text \o <<Tok("prose")>>

KittenMember == Member("age_group", JStr(<<"k", "i", "t", "t", "e", "n">>))

\* Prose that itself holds a pair of braces, as in "{note} ...".
BracedProse == <<Tok("{"), Tok("prose"), Tok("}")>>

\* Answers without a JSON object, with a malformed one, with a valid one
\* inside prose, after an empty pair of braces or after prose in braces, and
\* with a field that holds an array or an object.
OtherTexts ==
    { <<>>,
      <<Tok("prose")>>,
      <<Tok("{"), Tok("}")>>,
      <<Tok("{"), Tok("prose")>>,
      <<Tok("{"), Tok("prose"), Tok("}")>>,
      <<Tok("{"), KittenMember, Tok(","), Tok("}")>>,
      <<Tok("{"), Tok("{"), KittenMember, Tok("}"), Tok("}")>>,
      <<Tok("{"), Tok("}"), Tok("{"), KittenMember, Tok("}")>>,
      Wrapped(ObjectText(<<KittenMember>>)),
      ObjectText(<<KittenMember, Member("age_group", JNull)>>),
      BracedProse \o ObjectText(<<KittenMember>>),
      ObjectText(<<Member("food_type", JList(1, <<"w", "e", "t">>))>>),
      ObjectText(<<Member("brand", JList(0, <<>>)), KittenMember>>),
      <<Tok("{"), Tok("key")>> \o ObjectText(<<KittenMember>>) \o <<Tok("}")>> }

Responses ==
    {[raises |-> TRUE, text |-> <<>>]}
    \cup {[raises |-> FALSE, text |-> ObjectText(m)] : m \in MemberLists}
    \cup {[raises |-> FALSE, text |-> t] : t \in OtherTexts}

\* The answers of the search request among the catalogue's operations: a
\* filter, and a brand that closes its string constant and goes on with
\* statements of its own.
CatalogResponses ==
    { [raises |-> FALSE, text |-> ObjectText(<<KittenMember>>)],
      [raises |-> FALSE,
       text |-> ObjectText(<<Member("brand", JStr(<<"'", StackedDelete, "'">>))>>)] }


-----------------------------------------------------------------------------
(* Backup directories written by hand, the catalogue's way in: the API     *)
(* cannot create a product, so the product table is filled by restoring.   *)

\* The files of a directory that holds the given rows.
Directory(products, ingredients, associations) ==
    backup_database(TablesOf(products, ingredients, associations, 1, 1))

ShortLists == UNION {[1..n -> ProductBodies] : n \in 0..MaxProducts}

LongKinds ==
    { Body(Acana, BrandAb, JNum(1), JStr(Wet), JStr(Kitten)),
      Body(Bravo, BrandQuote, JNum(3), JStr(Dry), JStr(Adult)) }

LongLists ==
    { [i \in 1..CsvRowCount |-> IF i % 2 = 1 THEN odd ELSE even] :
          odd \in LongKinds, even \in LongKinds }

\* The directories the search is checked over: up to MaxProducts products of
\* any kind, or CsvRowCount products of two kinds in turn.
SearchDirs ==
    { Directory([i \in 1..Len(list) |-> NewProduct(i, list[i])], <<>>, {}) :
          list \in ShortLists \cup LongLists }

Row(id, name, brand, price, age_group, description, image_url, shopping_url) ==
    [id |-> id, name |-> JStr(name), brand |-> JStr(brand), price |-> price,
     food_type |-> JStr(Wet), age_group |-> age_group,
     description |-> description, full_ingredient_list |-> JNull,
     image_url |-> image_url, shopping_url |-> shopping_url]

IngredientRow(id, name, common_allergens) ==
    [id |-> id, name |-> JStr(name), common_allergens |-> common_allergens]

Chicken == <<"c", "h", "i", "c", "k", "e", "n">>
Rice == <<"r", "i", "c", "e">>
NotAvailable == <<"N", "/", "A">>
ShopUrl == <<"s", "h", "o", "p">>
ImageUrl == <<"i", "m", "g">>

\* Three products: two kitten products with the same name up to case, of
\* which only the second has a description and an image, and one adult
\* product without an image; every product has an ingredient.
SmallProducts ==
    << Row(1, <<"D", "o", "g", " ", "F", "o", "o", "d">>, Acana, JNum(1),
           JStr(Kitten), JNull, JNull, JStr(ShopUrl)),
       Row(2, DogFood, Acana, JNum(1), JStr(Kitten), JStr(<<"d">>),
           JStr(ImageUrl), JNull),
       Row(3, Bravo, BrandAb, JNull, JStr(Adult), JNull, JNull, JNull) >>

SmallIngredients ==
    << IngredientRow(1, Chicken, JNull), IngredientRow(2, Rice, JNull) >>

DirSmall ==
    Directory(SmallProducts, SmallIngredients,
              {Link(1, 1), Link(2, 1), Link(3, 2)})

\* Ids of a catalogue that grew past RollbackKeep and was thinned out again.
GapIds == <<RollbackKeep, RollbackKeep + 1, RollbackKeep + 2>>

DirGap ==
    Directory([i \in 1..Len(GapIds) |->
                  Row(GapIds[i], Acana, BrandAb, JNum(i), JNull, JNull,
                      JStr(ImageUrl), JNull)],
              SmallIngredients,
              {Link(GapIds[1], 1), Link(GapIds[2], 1)})

\* RollbackKeep + 2 products with the ids 1, 2, ...
DirFull ==
    Directory([i \in 1..(RollbackKeep + 2) |->
                  Row(i, Acana, BrandAb, JNum(1), JNull, JNull,
                      JStr(ImageUrl), JNull)],
              SmallIngredients,
              {Link(1, 1), Link(RollbackKeep, 2), Link(RollbackKeep + 1, 1)})

CatalogDirs == {DirSmall, DirGap, DirFull}

\* Ingredients the ingredient API is asked to create.
NewIngredients ==
    { [name |-> Chicken, common_allergens |-> JList(1, Chicken)],
      [name |-> NotAvailable, common_allergens |-> JNull] }

\* Ingestion files of one row; the ingredient list of the second names no
\* ingredient but says so.
CatalogCsvFiles ==
    { <<CsvRow(Acana, BrandAb, <<"1">>, Wet, Kitten, Chicken \o <<",", " ">> \o Rice)>>,
      <<CsvRow(Bravo, BrandAb, <<"x">>, Dry, Adult, NotAvailable)>> }

\* Ids DELETE /products/{product_id} is called with: one that no product
\* has, and two that products of the directories have.
DeleteIds == {0, 2, RollbackKeep + 1}

\* Arguments of the scripts.
NameNeedles == {<<>>, <<"D", "O", "G">>}
UrlNeedles == {ShopUrl}
UrlFields == {"both", "shopping", "image"}

-----------------------------------------------------------------------------
(* The state machine.                                                      *)

NoRequest == [phase |-> "none"]
NoResponse == [status |-> 0, result |-> <<>>, detail |-> ""]

NoAnswer == [raises |-> FALSE, text |-> <<>>]

\* The database as the state holds it.
Tables == TablesOf(store, ingredient, association, nextId, nextIngredientId)

SetTables(tables) ==
    /\ store' = tables.store
    /\ ingredient' = tables.ingredient
    /\ association' = tables.association
    /\ nextId' = tables.nextId
    /\ nextIngredientId' = tables.nextIngredientId

NotCalled ==
    [exception |-> "", params |-> EmptyDict, sql |-> NoSql, queried |-> FALSE,
     rows |-> <<>>, result |-> <<>>, trace |-> <<>>, tables |-> Tables]

\* One POST /search request: get_search_service builds the service, then the
\* endpoint calls search.  The model's answer, the state of the database and
\* how it orders equal names are the environment's choices.
Handled(response, db, tie) ==
    IF SearchService_init(db).raised
    THEN [phase |-> "done", called |-> FALSE, response |-> NoAnswer, db |-> db,
          call |-> NotCalled, http |-> InternalServerError]
    ELSE LET call == search(response, Tables, db, tie)
         IN [phase |-> "done", called |-> TRUE, response |-> response, db |-> db,
             call |-> call, http |-> SearchEndpoint(call)]

\* What an operation was called with and what it handed back, for the
\* operations that take or return more than --yes: the flag
\* --delete-orphan-ingredients, the product id and the HTTP status of the
\* API, the rows of a file or a sheet and the count of the summary, the
\* names asked for and the ingredients returned.
NoReturn ==
    [orphans |-> FALSE, product_id |-> 0, status |-> 0, rows |-> <<>>,
     count |-> 0, names |-> <<>>, ingredients |-> <<>>]

NoOp == [name |-> "", yes |-> FALSE, raised |-> FALSE, stmts |-> <<>>,
         before |-> EmptyTables, ret |-> NoReturn]

NoBackup == [written |-> FALSE, files |-> Directory(<<>>, <<>>, {}),
             source |-> EmptyTables]

\* What an operation on the catalogue was and did.
LoggedReturning(name, yes, raised, stmts, ret) ==
    lastOp' = [name |-> name, yes |-> yes, raised |-> raised, stmts |-> stmts,
               before |-> Tables, ret |-> ret]

Logged(name, yes, raised, stmts) ==
    LoggedReturning(name, yes, raised, stmts, NoReturn)

\* A request no worker is handling.
Idle ==
    [pc |-> "idle", response |-> NoAnswer, db |-> "up", tie |-> "heap",
     params |-> EmptyDict, sql |-> NoSql, rows |-> <<>>, exception |-> "",
     http |-> NoResponse, met |-> {}]

Requests == {1, 2}

Init ==
    /\ store = <<>>
    /\ nextId = 1
    /\ ingredient = <<>>
    /\ association = {}
    /\ nextIngredientId = 1
    /\ last = NoRequest
    /\ prev = NoResponse
    /\ lastOp = NoOp
    /\ backup = NoBackup
    /\ reqs = [i \in Requests |-> Idle]

\* A script or a migration ran: its statements, its tables.
ScriptReturning(name, yes, ran, ret) ==
    /\ SetTables(ran.tables)
    /\ LoggedReturning(name, yes, ran.raised, ran.stmts, ret)
    /\ last' = NoRequest
    /\ prev' = NoResponse
    /\ UNCHANGED <<backup, reqs>>

Script(name, yes, ran) == ScriptReturning(name, yes, ran, NoReturn)

\* python scripts/restore_from_backup.py --backup-dir <dir>, answered "yes".
RestoreFrom(dirs) ==
    \E dir \in dirs :
        LET restored == restore_from_backup(dir, Tables)
        IN Script("restore", TRUE,
                  [stmts |-> <<>>, raised |-> restored.raised,
                   tables |-> restored.tables])

\* The catalogue is loaded into the empty database.
Restore ==
    /\ store = <<>>
    /\ RestoreFrom(SearchDirs)

SearchOf(responses) ==
    /\ last.phase = "none"
    /\ \E response \in responses, db \in DbStates, tie \in TieOrders :
          LET handled == Handled(response, db, tie)
          IN last' = handled /\ SetTables(handled.call.tables)
    /\ prev' = NoResponse
    /\ Logged("search", FALSE, FALSE, <<>>)
    /\ UNCHANGED <<backup, reqs>>

Search == SearchOf(Responses)

\* The request that was just answered with a result comes once more, and the
\* model gives the same answer.
SearchAgain ==
    /\ last.phase = "done"
    /\ last.http.status = 200
    /\ prev.status = 0
    /\ \E db \in DbStates, tie \in TieOrders :
          LET handled == Handled(last.response, db, tie)
          IN last' = handled /\ SetTables(handled.call.tables)
    /\ prev' = last.http
    /\ Logged("search", FALSE, FALSE, <<>>)
    /\ UNCHANGED <<backup, reqs>>

\* The response has been delivered; the next request is observed afresh.
Forget ==
    /\ last.phase = "done"
    /\ last' = NoRequest
    /\ prev' = NoResponse
    /\ UNCHANGED <<store, nextId, ingredient, association, nextIngredientId,
                   lastOp, backup, reqs>>

Next == Restore \/ Search \/ SearchAgain \/ Forget

Spec == Init /\ [][Next]_vars

-----------------------------------------------------------------------------
(* The catalogue's operations: the API, ingestion, the scripts and the     *)
(* migration, with a search request among them.                            *)

\* POST /products
CreateProduct ==
    \E product \in ProductBodies :
        LET created == ProductRepository_create(product, Tables)
        IN Script("create_product", TRUE,
                  [stmts |-> <<>>, raised |-> created.raised,
                   tables |-> created.tables])

\* POST /ingredients
CreateIngredient ==
    /\ nextIngredientId <= MaxIngredients
    /\ \E new \in NewIngredients :
          LET created == IngredientRepository_create(
                             new.name, new.common_allergens, Tables)
          IN Script("create_ingredient", TRUE,
                    [stmts |-> <<>>, raised |-> created.raised,
                     tables |-> created.tables])

\* POST /ingest/csv
IngestCsv ==
    /\ nextIngredientId <= MaxIngredients
    /\ \E file \in CatalogCsvFiles :
          Script("ingest_csv", TRUE,
                 [stmts |-> <<>>, raised |-> FALSE,
                  tables |-> ingest_csv_content(file, Tables, 0).tables])

RestoreFiles == RestoreFrom(CatalogDirs)

RestoreSmall == RestoreFrom({DirSmall})

\* DELETE /products/{product_id}
DeleteProduct ==
    \E product_id \in DeleteIds :
        LET response == delete_product(product_id, Tables)
        IN ScriptReturning("delete_product", TRUE, response.ran,
                           [NoReturn EXCEPT !.product_id = product_id,
                                            !.status = response.status])

DeleteByName ==
    \E contains \in NameNeedles, yes \in BOOLEAN, orphans \in BOOLEAN :
        ScriptReturning("delete_products_by_name", yes,
                        delete_products_by_name(contains, yes, orphans, Tables),
                        [NoReturn EXCEPT !.orphans = orphans])

DeleteByUrl ==
    \E contains \in UrlNeedles, field \in UrlFields, yes \in BOOLEAN,
       orphans \in BOOLEAN :
        ScriptReturning("delete_products_by_url", yes,
                        delete_products_by_url(contains, field, yes, orphans,
                                               Tables),
                        [NoReturn EXCEPT !.orphans = orphans])

DeleteWithoutImage ==
    \E yes \in BOOLEAN, orphans \in BOOLEAN :
        ScriptReturning("delete_products_without_image", yes,
                        delete_products_without_image(yes, orphans, Tables),
                        [NoReturn EXCEPT !.orphans = orphans])

RemoveDuplicates ==
    \E yes \in BOOLEAN :
        Script("remove_duplicate_products", yes,
               remove_duplicate_products(yes, Tables))

RemoveDuplicateKitten ==
    \E yes \in BOOLEAN :
        Script("remove_duplicate_kitten_products", yes,
               remove_duplicate_kitten_products(yes, Tables))

ClearCatFoodData ==
    \E yes \in BOOLEAN :
        Script("clear_cat_food_data", yes, clear_cat_food_data(yes, Tables))

ResetAndImport ==
    \E yes \in BOOLEAN, wipe_only \in BOOLEAN, file \in CatalogCsvFiles :
        Script("reset_and_import", yes,
               reset_and_import(yes, wipe_only, file, Tables))

\* python -m src.scripts.rollback_to_38_products [--yes] [--dry-run]
RollbackTo38 ==
    \E yes \in BOOLEAN, dry_run \in BOOLEAN :
        Script(IF dry_run THEN "rollback_to_38_products --dry-run"
               ELSE "rollback_to_38_products",
               yes, rollback_main(yes, dry_run, Tables))

\* alembic upgrade: the dog-food migration
DogFoodMigration ==
    Script("delete_dog_food_products", TRUE, delete_dog_food_upgrade(Tables))

\* python -m src.scripts.backup_database, once
BackupDatabase ==
    /\ ~backup.written
    /\ backup' = [written |-> TRUE, files |-> backup_database(Tables),
                  source |-> Tables]
    /\ Logged("backup_database", TRUE, FALSE, <<>>)
    /\ last' = NoRequest
    /\ prev' = NoResponse
    /\ UNCHANGED <<store, nextId, ingredient, association, nextIngredientId, reqs>>

\* restore_from_backup on the directory the backup wrote
RestoreBackup ==
    /\ backup.written
    /\ LET restored == restore_from_backup(backup.files, Tables)
       IN Script("restore_backup", TRUE,
                 [stmts |-> <<>>, raised |-> restored.raised,
                  tables |-> restored.tables])

SearchCatalog == SearchOf(CatalogResponses)

CatalogNext ==
    \/ RestoreFiles \/ DeleteProduct \/ DeleteByName \/ DeleteByUrl
    \/ DeleteWithoutImage \/ RemoveDuplicates \/ RemoveDuplicateKitten
    \/ ClearCatFoodData \/ ResetAndImport \/ RollbackTo38 \/ DogFoodMigration
    \/ SearchCatalog \/ Forget

CatalogSpec == Init /\ [][CatalogNext]_vars

\* The ways an ingredient gets into the database, and backup and restore.
BackupNext ==
    \/ CreateProduct \/ CreateIngredient \/ IngestCsv \/ RestoreSmall
    \/ BackupDatabase \/ RestoreBackup

BackupSpec == Init /\ [][BackupNext]_vars

-----------------------------------------------------------------------------
(* The three scripts that remove duplicates, on catalogues that hold       *)
(* duplicates of every kind the scripts tell apart.                        *)

DupListLen == 3  \* products of a catalogue with duplicates

Dog == <<"D", "o", "g">>
DogFoodTitle == <<"D", "o", "g", " ", "F", "o", "o", "d">>
DogFoodPadded == DogFood \o <<" ">>

DupKind(name, age_group, price, description, full_ingredient_list, image_url) ==
    [name |-> name, age_group |-> age_group, price |-> price,
     description |-> description,
     full_ingredient_list |-> full_ingredient_list, image_url |-> image_url]

\* Names that are equal up to case and blanks, or only once the stop words
\* are gone; descriptions and ingredient lists that are missing, blank,
\* padded or plain; kitten and adult products.
DupKinds ==
    { DupKind(DogFoodTitle, Kitten, JNull, JNull, JNull, JNull),
      DupKind(DogFoodPadded, Kitten, JNull, JStr(<<"d">>), JNull, JNull),
      DupKind(Dog, Kitten, JNum(1), JStr(<<" ">>), JStr(Chicken),
              JStr(ImageUrl)),
      DupKind(DogFoodTitle, Adult, JNum(1), JStr(<<" ", "d">>), JStr(Chicken),
              JNull),
      DupKind(Dog, Adult, JNull, JNull, JStr(<<" ">>), JNull) }

DupRow(id, kind) ==
    [Row(id, kind.name, Acana, kind.price, JStr(kind.age_group),
         kind.description, kind.image_url, JNull)
     EXCEPT !.full_ingredient_list = kind.full_ingredient_list]

\* The ids of the rows, in the order the file holds them.
IdOrders ==
    { [i \in 1..DupListLen |-> i],
      [i \in 1..DupListLen |-> IF i = 1 THEN DupListLen ELSE i - 1] }

DupDirs ==
    { Directory([i \in 1..DupListLen |-> DupRow(ids[i], kinds[i])],
                SmallIngredients,
                {Link(ids[i], 1) : i \in 1..DupListLen}) :
          kinds \in [1..DupListLen -> DupKinds], ids \in IdOrders }

\* Answers to "Continue? (yes/no): ".
ContinueAnswers == {<<"Y", "e", "s", " ">>, <<"y">>, <<"n", "o">>, <<>>}

RestoreDuplicates ==
    /\ store = <<>>
    /\ RestoreFrom(DupDirs)

\* python scripts/sort_and_deduplicate_products.py
SortAndDeduplicate ==
    \E response \in ContinueAnswers :
        Script("sort_and_deduplicate_products", Confirms(response),
               sort_and_deduplicate_products(response, Tables))

DedupNext ==
    \/ RestoreDuplicates \/ RemoveDuplicates \/ RemoveDuplicateKitten
    \/ SortAndDeduplicate

DedupSpec == Init /\ [][DedupNext]_vars

-----------------------------------------------------------------------------
(* Ingestion: the ingredient service, the CSV ingestion and the Excel      *)
(* import, called one after the other.                                     *)

MaxNames == 2      \* names in one call of get_or_create_ingredients
MaxFileRows == 2   \* rows of an ingestion file and of a sheet

Padded(text) == <<" ">> \o text \o <<" ">>

\* Names asked for: plain, padded, blank.
NameChoices == {Chicken, Rice, Padded(Rice), <<" ">>}

NameLists == UNION {[1..n -> NameChoices] : n \in 1..MaxNames}

\* Rows of an ingestion file: with a price and two ingredients, with a price
\* that is no number, with an empty price and no ingredient.
IngestRows ==
    { CsvRow(Acana, BrandAb, <<"1">>, Wet, Kitten,
             Chicken \o <<",", " ">> \o Rice),
      CsvRow(Bravo, BrandAb, <<"x">>, Dry, Adult, Rice),
      CsvRow(Bravo, BrandQuote, <<>>, <<>>, <<>>, <<>>) }

IngestFiles == UNION {[1..n -> IngestRows] : n \in 1..MaxFileRows}

\* Rows of a sheet: only a name and a numeric price; only a name; no name;
\* every cell filled; a price of 0.
ExcelRows ==
    { ExcelRow(JStr(<<"W", "y", "s", "o", "n", "g", " ", "D", "r", "y">>),
               JNull, JNum(3), JStr(Chicken \o <<";">> \o Rice),
               JNull, JNull, JNull, JNull, JNull),
      ExcelRow(JStr(Bravo), JNull, JNull, JNull, JNull, JNull, JNull, JNull,
               JNull),
      ExcelRow(JNull, JStr(BrandAb), JNum(1), JStr(Chicken), JNull, JNull,
               JNull, JNull, JNull),
      ExcelRow(JStr(<<"T", "h", "e", " ", "C", "a", "t", " ", "s", "t", "e", "w">>),
               JStr(BrandAb), JStr(<<"$", "1">>),
               JStr(Chicken \o <<",">> \o Rice), JStr(<<"d">>), JStr(Kitten),
               JStr(<<"C", "a", "n", "n", "e", "d">>), JStr(ImageUrl),
               JStr(ShopUrl)),
      ExcelRow(JStr(Acana), JStr(BrandAb), JNum(0), JNull, JNull, JNull,
               JNull, JNull, JNull) }

ExcelSheets == UNION {[1..n -> ExcelRows] : n \in 1..MaxFileRows}

\* IngredientService.get_or_create_ingredients(names)
GetOrCreate ==
    \E names \in NameLists :
        LET got == get_or_create_ingredients(names, Tables, <<>>)
        IN ScriptReturning("get_or_create_ingredients", TRUE,
                           [stmts |-> <<>>, raised |-> FALSE,
                            tables |-> got.tables],
                           [NoReturn EXCEPT !.names = names,
                                            !.ingredients = got.ingredients])

\* IngestionService.ingest_csv_content(csv_content)
IngestFile ==
    \E file \in IngestFiles :
        LET summary == ingest_csv_content(file, Tables, 0)
        IN ScriptReturning("ingest_csv_content", TRUE,
                           [stmts |-> <<>>, raised |-> FALSE,
                            tables |-> summary.tables],
                           [NoReturn EXCEPT
                                !.rows = file,
                                !.count = summary.products_created])

\* python -m src.scripts.import_products_from_excel --excel <file>
ImportFromExcel ==
    \E df \in ExcelSheets :
        LET summary == import_from_excel(df, Tables)
        IN ScriptReturning("import_from_excel", TRUE,
                           [stmts |-> <<>>, raised |-> FALSE,
                            tables |-> summary.tables],
                           [NoReturn EXCEPT
                                !.rows = df,
                                !.count = summary.products_created])

IngestNext ==
    \/ RestoreSmall \/ CreateIngredient \/ GetOrCreate \/ IngestFile
    \/ ImportFromExcel

IngestSpec == Init /\ [][IngestNext]_vars

-----------------------------------------------------------------------------
(* Search requests in flight together.  Within one event loop a call of    *)
(* search runs without interleaving, since nothing in it awaits; requests  *)
(* served by different worker processes interleave at any point.  Each     *)
(* request has the SearchService that get_search_service built for it and  *)
(* the local variables of its call of search.                              *)

ConcResponses ==
    { [raises |-> TRUE, text |-> <<>>],
      [raises |-> FALSE, text |-> ObjectText(<<KittenMember>>)],
      [raises |-> FALSE,
       text |-> ObjectText(<<Member("food_type", JStr(<<"d", "r", "y">>))>>)] }

ConcDirs ==
    { Directory([i \in 1..Len(list) |-> NewProduct(i, list[i])], <<>>, {}) :
          list \in [1..MaxProducts -> LongKinds] }

InFlight(frames) == {i \in DOMAIN frames : frames[i].pc \notin {"idle", "done"}}

\* The params a request's query would be built from if the service object,
\* and the params on it, were shared by the requests.
ParamsOf_shared(frames, i) ==
    LET others == {j \in InFlight(frames) \ {i} : frames[j].pc # "extract"}
    IN IF others = {} THEN frames[i].params
       ELSE frames[CHOOSE j \in others : TRUE].params

\* The local variable params of a request's call of search.
ParamsOf(frames, i) == frames[i].params

\* Request i takes a step to the frame `frame`, beside the requests that are
\* in flight at that moment.
Step(i, frame) ==
    /\ reqs' = [reqs EXCEPT
                    ![i] = [frame EXCEPT !.met = @ \cup (InFlight(reqs) \ {i})]]
    /\ last' = NoRequest
    /\ prev' = NoResponse
    /\ UNCHANGED <<lastOp, backup>>

Frozen == UNCHANGED <<store, nextId, ingredient, association, nextIngredientId>>

\* The catalogue is loaded while no request is being handled.
LoadCatalog ==
    /\ store = <<>>
    /\ \A i \in Requests : reqs[i].pc = "idle"
    /\ RestoreFrom(ConcDirs)

\* A request arrives; get_search_service builds its SearchService.
Arrive(i) ==
    /\ reqs[i].pc = "idle"
    /\ \E response \in ConcResponses, db \in DbStates, tie \in TieOrders :
          Step(i, IF SearchService_init(db).raised
                  THEN [Idle EXCEPT !.pc = "done", !.db = db, !.tie = tie,
                                    !.http = InternalServerError]
                  ELSE [Idle EXCEPT !.pc = "extract", !.response = response,
                                    !.db = db, !.tie = tie])
    /\ Frozen

\* params = self._extract_search_params(query)
Extract(i) ==
    /\ reqs[i].pc = "extract"
    /\ LET extracted == extract_search_params(reqs[i].response)
       IN Step(i, IF extracted.raised
                  THEN [reqs[i] EXCEPT
                           !.pc = "done", !.exception = "LLMError",
                           !.http = SearchEndpoint([exception |-> "LLMError",
                                                    result |-> <<>>])]
                  ELSE [reqs[i] EXCEPT !.pc = "build",
                                       !.params = extracted.params])
    /\ Frozen

\* sql = self._build_sql_query(params)
Build(i) ==
    /\ reqs[i].pc = "build"
    /\ Step(i, [reqs[i] EXCEPT !.pc = "execute",
                               !.sql = build_sql_query(ParamsOf(reqs, i))])
    /\ Frozen

\* conn.execute(text(sql)).fetchall()
Execute_(i) ==
    /\ reqs[i].pc = "execute"
    /\ LET executed == ExecuteQuery(reqs[i].sql, Tables, reqs[i].db, reqs[i].tie)
       IN /\ Step(i, IF executed.error # ""
                     THEN [reqs[i] EXCEPT
                              !.pc = "done", !.exception = executed.error,
                              !.http = SearchEndpoint([exception |-> executed.error,
                                                       result |-> <<>>])]
                     ELSE [reqs[i] EXCEPT !.pc = "format",
                                          !.rows = executed.rows])
          /\ SetTables(executed.tables)

\* The result is formatted and the endpoint answers.
Respond(i) ==
    /\ reqs[i].pc = "format"
    /\ Step(i, [reqs[i] EXCEPT
                   !.pc = "done",
                   !.http = SearchEndpoint([exception |-> "",
                                            result |-> FormatRows(reqs[i].rows)])])
    /\ Frozen

\* The response is delivered.
Retire(i) ==
    /\ reqs[i].pc = "done"
    /\ reqs' = [reqs EXCEPT ![i] = Idle]
    /\ UNCHANGED <<store, nextId, ingredient, association, nextIngredientId,
                   last, prev, lastOp, backup>>

ConcNext ==
    \/ LoadCatalog
    \/ \E i \in Requests :
          Arrive(i) \/ Extract(i) \/ Build(i) \/ Execute_(i) \/ Respond(i) \/ Retire(i)

ConcSpec == Init /\ [][ConcNext]_vars

-----------------------------------------------------------------------------
(* Ingestion requests in flight together.  Each request has its own        *)
(* session; a request gives way to the others wherever it awaits the       *)
(* database: at the SELECT of get_by_name, and at the commit of create.    *)

\* One-row files the requests bring.
ConcRows ==
    { CsvRow(Acana, BrandAb, <<"1">>, Wet, Kitten, Chicken),
      CsvRow(Bravo, BrandAb, <<"1">>, Dry, Adult,
             Chicken \o <<",", " ">> \o Rice),
      CsvRow(Bravo, BrandQuote, <<"1">>, Dry, Adult,
             Rice \o <<",", " ">> \o Chicken) }

\* Where a request goes once it has the ingredients it has.
AfterIngredient(frame, ingredients) ==
    [frame EXCEPT !.ingredients = ingredients,
                  !.pc = IF Len(ingredients) < Len(frame.names) THEN "lookup"
                         ELSE "product"]

\* The name a request is looking up or creating.
NameAt(frame) == frame.names[Len(frame.ingredients) + 1]

Moves(i, frame) ==
    /\ reqs' = [reqs EXCEPT ![i] = frame]
    /\ last' = NoRequest
    /\ prev' = NoResponse
    /\ UNCHANGED <<lastOp, backup>>

\* POST /ingest/csv arrives with a file of one row.
IngestArrive(i) ==
    /\ reqs[i].pc = "idle"
    /\ \E row \in ConcRows :
          Moves(i, AfterIngredient(
                       [pc |-> "lookup", row |-> row,
                        names |-> parse_ingredient_list(row.full_ingredient_list),
                        ingredients |-> <<>>, raised |-> FALSE,
                        products_created |-> 0],
                       <<>>))
    /\ Frozen

\* ingredient = await self.repository.get_by_name(name)
Lookup(i) ==
    /\ reqs[i].pc = "lookup"
    /\ LET found == get_by_name(NameAt(reqs[i]), Tables)
       IN Moves(i, IF found = {} THEN [reqs[i] EXCEPT !.pc = "create"]
                   ELSE AfterIngredient(
                            reqs[i],
                            Append(reqs[i].ingredients,
                                   ingredient[CHOOSE k \in found : TRUE])))
    /\ Frozen

\* ingredient = await self.repository.create(ingredient_create): the INSERT
\* is rejected when the name is there by now, and the exception ends the
\* row, which was the file's only one.
CreateMissing(i) ==
    /\ reqs[i].pc = "create"
    /\ LET created == IngredientRepository_create(NameAt(reqs[i]), JNull, Tables)
       IN /\ SetTables(created.tables)
          /\ Moves(i, IF created.raised
                      THEN [reqs[i] EXCEPT !.pc = "done", !.raised = TRUE]
                      ELSE AfterIngredient(
                               reqs[i],
                               Append(reqs[i].ingredients,
                                      created.tables.ingredient[
                                          Len(created.tables.ingredient)])))

\* ProductCreate(...) and product_service.create_product, then the summary.
CreateFromRow(i) ==
    /\ reqs[i].pc = "product"
    /\ LET created == create_from_row(reqs[i].row, reqs[i].ingredients, Tables)
       IN /\ SetTables(created.tables)
          /\ Moves(i, [reqs[i] EXCEPT
                           !.pc = "done",
                           !.products_created =
                               IF created.raised THEN @ ELSE @ + 1])

IngestConcNext ==
    \E i \in Requests :
        IngestArrive(i) \/ Lookup(i) \/ CreateMissing(i) \/ CreateFromRow(i)

IngestConcSpec == Init /\ [][IngestConcNext]_vars

-----------------------------------------------------------------------------
(* Vocabulary of the properties.                                           *)

\* A request has been handled and search was called for it.
Done == last.phase = "done" /\ last.called

StringFields == {"food_type", "age_group", "brand"}

\* The value the request extracted for a field (null when absent).
Extracted(field) == DictGet(last.call.params, field)

Rows == last.call.rows

\* text contains value as a literal substring, ignoring case.
ContainsIgnoringCase(text, value) ==
    \E i \in 1..(Len(text) - Len(value) + 1) :
        LowerText(SubSeq(text, i, i + Len(value) - 1)) = LowerText(value)

\* The stored products the executed WHERE clause accepts.
Matching == {i \in 1..Len(store) : WhereHolds(last.call.sql.where, store[i])}

\* The extraction had nothing to parse: the model call raised, the answer
\* holds no brace-delimited object, or json.loads rejected it.
ExtractionFailed ==
    \/ last.response.raises
    \/ ~RegexSearch(last.response.text).found
    \/ JsonLoads(RegexSearch(last.response.text).group).raised

\* The database raised while executing the statement of this request.
DatabaseFailed ==
    /\ last.call.queried
    /\ \/ last.db # "up"
       \/ \E i \in 1..Len(last.call.sql.where) : ~CondParses(last.call.sql.where[i])

-----------------------------------------------------------------------------
\* C1: extraction is fail-open: when the model call raises, or its answer
\* holds no JSON object, or the JSON is malformed, the extractor returns the
\* empty filter without raising, the query still runs with it, and the
\* caller gets a result (unless the database itself is down).
C1_FailOpen ==
    (Done /\ ExtractionFailed) =>
        /\ last.call.exception # "LLMError"
        /\ last.call.params = EmptyDict
        /\ last.call.queried
        /\ (last.db = "up" => last.http.status = 200)

\* C2: injection safety: a non-empty string extracted for food_type,
\* age_group or brand is matched as a literal substring: the statement is
\* never rejected as malformed, and every returned product holds the value
\* in that column.
C2_InjectionSafe ==
    (Done /\ last.call.queried /\ last.db = "up") =>
        /\ last.call.exception # "ProgrammingError"
        /\ \A f \in StringFields :
              (Extracted(f).t = "str" /\ Extracted(f).s # <<>>) =>
                  \A i \in 1..Len(Rows) :
                      /\ Rows[i][f].t = "str"
                      /\ ContainsIgnoringCase(Rows[i][f].s, Extracted(f).s)

\* C3: the WHERE clause is the conjunction of exactly one condition per
\* non-null field (max_price = 0 included), none for a null or absent field,
\* and with all four fields null every product matches.  Stated for filters
\* whose strings are not empty.
FilterFields == StringFields \cup {"max_price"}

ColumnOf(f) == IF f = "max_price" THEN "price" ELSE f

NoEmptyString ==
    \A f \in StringFields : Extracted(f).t = "str" => Extracted(f).s # <<>>

C3_OneConditionPerField ==
    (Done /\ last.call.queried /\ last.call.exception = "" /\ NoEmptyString) =>
        LET nonNull == {f \in FilterFields : Extracted(f).t # "null"}
            where == last.call.sql.where
        IN /\ {where[i].col : i \in 1..Len(where)} \ {TrueCond.col}
                 = {ColumnOf(f) : f \in nonNull}
           /\ Len(where) = (IF nonNull = {} THEN 1 ELSE Cardinality(nonNull))
           /\ nonNull = {} => Matching = 1..Len(store)

\* C4: for a non-empty string extracted for food_type, age_group or brand, a
\* product is matched on that field iff its stored column contains the value
\* as a substring ignoring case.
FieldAccepts(f, row) ==
    \A i \in 1..Len(last.call.sql.where) :
        last.call.sql.where[i].col = f =>
            /\ CondParses(last.call.sql.where[i])
            /\ CondHolds(last.call.sql.where[i], row)

C4_SubstringIgnoringCase ==
    (Done /\ last.call.queried /\ last.db = "up") =>
        \A f \in StringFields :
            (Extracted(f).t = "str" /\ Extracted(f).s # <<>>) =>
                \A i \in 1..Len(store) :
                    FieldAccepts(f, store[i])
                        <=> /\ store[i][f].t = "str"
                            /\ ContainsIgnoringCase(store[i][f].s, Extracted(f).s)

\* C5: with a non-null numeric max_price m, no returned product has a price
\* above m and none has a null price.
C5_MaxPriceBounds ==
    (Done /\ last.call.exception = "" /\ Extracted("max_price").t = "num") =>
        \A i \in 1..Len(Rows) :
            /\ Rows[i].price.t = "num"
            /\ Rows[i].price.n <= Extracted("max_price").n

\* C10: a max_price that is non-numeric or negative is treated as absent: no
\* price condition is built from it and the request raises no error.
BadMaxPrice ==
    \/ Extracted("max_price").t = "num" /\ Extracted("max_price").n < 0
    \/ Extracted("max_price").t = "str"
       /\ ~NumericConstant(Extracted("max_price").s).ok

C10_BadMaxPriceAbsent ==
    (Done /\ last.call.queried /\ last.db = "up" /\ BadMaxPrice) =>
        /\ \A i \in 1..Len(last.call.sql.where) :
              last.call.sql.where[i].col # "price"
        /\ last.call.exception # "ProgrammingError"

\* C8: two searches that extract the same filter from an unchanged table
\* return the same output, also when matching products share a name.
C8_Idempotent ==
    (Done /\ prev.status = 200 /\ last.http.status = 200) =>
        last.http.result = prev.result

\* C6: a search that returns gives exactly min(20, n) products, n the
\* number of matching products, and they are the first of the matches in
\* ascending order of name: no returned name is above the next one, and no
\* match left out has a name below a returned one.
C6_CapAndOrder ==
    (Done /\ last.call.exception = "") =>
        LET returned == {Rows[i].id : i \in 1..Len(Rows)}
            n == Cardinality(Matching)
        IN /\ Len(Rows) = (IF n < 20 THEN n ELSE 20)
           /\ Cardinality(returned) = Len(Rows)
           /\ \A i \in 1..Len(Rows) :
                 \E m \in Matching : store[m] = Rows[i]
           /\ \A i \in 1..(Len(Rows) - 1) :
                 ~TextLess(Rows[i + 1].name.s, Rows[i].name.s)
           /\ \A m \in Matching :
                 store[m].id \notin returned =>
                     \A i \in 1..Len(Rows) :
                         ~TextLess(store[m].name.s, Rows[i].name.s)

\* More than 20 products match, 20 come back, and they are not the first 20
\* in insertion order: names differ and the first stored row is left out.
C6_Witness ==
    /\ Done /\ last.call.exception = ""
    /\ Cardinality(Matching) > 20
    /\ Len(Rows) = 20
    /\ Rows[1].name.s # Rows[20].name.s
    /\ \A i \in 1..Len(Rows) : Rows[i].id # store[1].id

\* C7: when the query runs and no stored product matches, the response is
\* 200 with exactly the one-line sentinel: no header, no product line.
C7_NoMatchSentinel ==
    (Done /\ last.call.exception = "" /\ Matching = {}) =>
        /\ last.http.status = 200
        /\ last.http.result =
              <<<<"No products found matching your criteria.">>>>

\* A brand that no stored product has, against a table that is not empty.
C7_Witness ==
    /\ Done /\ last.call.exception = ""
    /\ store # <<>>
    /\ Extracted("brand").t = "str" /\ Extracted("brand").s # <<>>
    /\ \A i \in 1..Len(store) :
          ~ContainsIgnoringCase(store[i].brand.s, Extracted("brand").s)
    /\ last.http.result = <<<<"No products found matching your criteria.">>>>

\* C9: a database error during search is never turned into a result: the
\* endpoint answers 500 with the error's message, not the sentinel and not
\* a list.
C9_DatabaseErrorIs500 ==
    (Done /\ DatabaseFailed) =>
        /\ last.http.status = 500
        /\ last.http.detail \in {"OperationalError", "ProgrammingError"}
        /\ last.http.result = <<>>

\* The database is down while the table holds products the filter accepts.
C9_Witness ==
    /\ Done /\ last.call.queried /\ last.db = "lost"
    /\ Matching # {}
    /\ last.http.status = 500

-----------------------------------------------------------------------------
\* The answer holds a JSON object with a filter field of the wrong type: an
\* array where food_type, age_group or brand should be a string or null, or an
\* object as a member's value.
HasWrongType ==
    /\ ~last.response.raises
    /\ \E i \in 1..Len(last.response.text) :
          LET token == last.response.text[i]
          IN \/ token.kind = "key"
             \/ /\ token.kind = "member"
                /\ token.key \in StringFields
                /\ token.val.t = "list"

\* C11: when the model's JSON object has a field of the wrong type,
\* extraction yields the empty filter, so that the statement is built with no
\* condition; no value other than a string or a number reaches the
\* construction of the query.
C11_WrongTypeIsEmptyFilter ==
    Done /\ HasWrongType =>
        /\ last.call.params = EmptyDict
        /\ last.call.sql.where = <<TrueCond>>

\* Prose around a JSON object: runs of text without braces, and text in
\* braces that is no JSON.
IsProse(text) ==
    \A k \in 1..Len(text) :
        CASE text[k].kind = "prose" -> TRUE
          [] text[k].kind = "{" ->
                /\ k + 2 <= Len(text)
                /\ text[k + 1].kind = "prose"
                /\ text[k + 2].kind = "}"
          [] text[k].kind = "}" ->
                /\ k >= 3
                /\ text[k - 1].kind = "prose"
                /\ text[k - 2].kind = "{"
          [] OTHER -> FALSE

\* The places i..j of the answer where a JSON object stands with nothing but
\* prose before and after it, and some prose there is.
WrappedObjects(text) ==
    { p \in (1..Len(text)) \X (1..Len(text)) :
        /\ p[1] < p[2]
        /\ text[p[1]].kind = "{"
        /\ text[p[2]].kind = "}"
        /\ \A k \in (p[1] + 1)..(p[2] - 1) : text[k].kind \in {"member", ","}
        /\ ~JsonLoads(SubSeq(text, p[1], p[2])).raised
        /\ IsProse(SubSeq(text, 1, p[1] - 1))
        /\ IsProse(SubSeq(text, p[2] + 1, Len(text)))
        /\ (p[1] > 1 \/ p[2] < Len(text)) }

\* C12: when the answer wraps a JSON object in prose, the extracted filter
\* is that object's fields: the prose around it changes nothing.
C12_ProseWrappedObject ==
    Done /\ ~last.response.raises =>
        \A p \in WrappedObjects(last.response.text) :
            last.call.params
                = JsonLoads(SubSeq(last.response.text, p[1], p[2])).value

\* The fixed parts of a product line, in their order, with text for the
\* columns between and after them.
HasLineForm(line) ==
    /\ Len(line) >= 5
    /\ line[1] = "- "
    /\ LET at(part) == {i \in 2..Len(line) : line[i] = part}
       IN \E a \in at(" by "), b \in at(" ($"), c \in at(") - "),
             d \in at(" food for ") :
             a < b /\ b < c /\ c < d

\* C13: when k >= 1 products are returned, the output is the header line
\* with the count k, then exactly k product lines in the order of the query's
\* rows, each of the form "<name> by <brand> ($<price>) - <food_type> food
\* for <age_group>", also for a product whose price, food_type or age_group
\* is null.
C13_HeaderAndProductLines ==
    Done /\ last.call.exception = "" /\ Len(Rows) >= 1 =>
        LET out == last.http.result
            k == Len(Rows)
        IN /\ last.http.status = 200
           /\ Len(out) = k + 2
           /\ out[1] = <<"Found ">> \o IntChars(k) \o <<" product(s):">>
           /\ out[2] = <<>>
           /\ \A i \in 1..k :
                 /\ HasLineForm(out[i + 2])
                 /\ out[i + 2] = ProductLine(Rows[i])

\* Two products were returned, one of them without price, food type and age
\* group.
C13_Witness ==
    /\ Done
    /\ last.http.status = 200
    /\ Len(Rows) = 2
    /\ Rows[1].price.t # "null"
    /\ Rows[2].price.t = "null"
    /\ Rows[2].food_type.t = "null"
    /\ Rows[2].age_group.t = "null"

\* The outbound calls of a request: exactly one completion, before any
\* query, and at most one query.
OneCallEach(trace) ==
    /\ Len(trace) \in {1, 2}
    /\ trace[1] = "llm"
    /\ Len(trace) = 2 => trace[2] = "db"

-----------------------------------------------------------------------------
\* The three tables, without the sequences.
Content(tables) ==
    [store |-> tables.store, ingredient |-> tables.ingredient,
     association |-> tables.association]

\* C14: search is read-only: whatever the model answers, the product,
\* ingredient and association tables are the same after a search request as
\* before it.
C14_SearchReadOnly ==
    lastOp.name = "search" => Content(Tables) = Content(lastOp.before)

\* No association row without its product and its ingredient.
NoDanglingAssociation ==
    \A a \in association :
        /\ a.product_id \in Ids(store)
        /\ a.ingredient_id \in Ids(ingredient)

\* The products a DELETE statement on cat_food_product names.
ProductsNamed(stmt, tables) ==
    IF stmt.where = "all" THEN Ids(tables.store) ELSE stmt.ids

\* In a sequence of statements, every DELETE on cat_food_product comes after
\* a DELETE on the association table that covers the association rows of the
\* products it names.
AssociationsFirst(stmts, tables) ==
    \A j \in 1..Len(stmts) :
        stmts[j].table = "cat_food_product" =>
            \E i \in 1..(j - 1) :
                /\ stmts[i].table = "product_ingredient_association"
                /\ \/ stmts[i].where = "all"
                   \/ {a.product_id : a \in tables.association}
                          \cap ProductsNamed(stmts[j], tables)
                      \subseteq stmts[i].ids

\* C15: after any sequence of product-removing operations, no association
\* row references a product that no longer exists, and within each operation
\* the association rows of the removed products are deleted before the
\* products themselves.
C15_AssociationsNeverOutlive ==
    /\ NoDanglingAssociation
    /\ AssociationsFirst(lastOp.stmts, lastOp.before)
    /\ lastOp.raised => lastOp.stmts = <<>>

\* A deletion script removed a product that had association rows.
C15_Witness ==
    /\ lastOp.name = "delete_products_by_name"
    /\ lastOp.yes
    /\ \E a \in lastOp.before.association : a.product_id \notin Ids(store)
    /\ Len(store) < Len(lastOp.before.store)
    /\ store # <<>>

DeletionScripts ==
    { "delete_products_by_name", "delete_products_by_url",
      "delete_products_without_image", "remove_duplicate_products",
      "remove_duplicate_kitten_products", "clear_cat_food_data",
      "reset_and_import", "rollback_to_38_products",
      "rollback_to_38_products --dry-run" }

\* C18: a deletion script run without --yes leaves every table unchanged.
C18_NoYesNoChange ==
    lastOp.name \in DeletionScripts /\ ~lastOp.yes =>
        /\ Tables = lastOp.before
        /\ lastOp.stmts = <<>>

\* clear_cat_food_data ran without --yes on tables that hold products.
C18_Witness ==
    /\ lastOp.name = "clear_cat_food_data"
    /\ ~lastOp.yes
    /\ lastOp.raised
    /\ store # <<>>
    /\ association # {}

\* C19: after rollback_to_38_products(confirm=True) has returned, no product
\* with id > 38 remains, and every product with id <= 38 that existed before
\* is still there with its association rows.
C19_RollbackPostcondition ==
    lastOp.name = "rollback_to_38_products" /\ lastOp.yes /\ ~lastOp.raised =>
        /\ \A id \in Ids(store) : id <= RollbackKeep
        /\ \A i \in 1..Len(lastOp.before.store) :
              lastOp.before.store[i].id <= RollbackKeep =>
                  \E k \in 1..Len(store) : store[k] = lastOp.before.store[i]
        /\ \A a \in lastOp.before.association :
              a.product_id <= RollbackKeep => a \in association

\* C20: restore_from_backup on the files backup_database wrote from the
\* tables S leaves the product, ingredient and association tables equal to
\* S, whatever they held before the restore.
C20_BackupRestoreRoundTrip ==
    lastOp.name = "restore_backup" =>
        /\ ~lastOp.raised
        /\ Content(Tables) = Content(backup.source)

\* The response a request gets when no other request is in flight.
Alone(frame) == Handled(frame.response, frame.db, frame.tie).http

-----------------------------------------------------------------------------
(* The deletion scripts' --delete-orphan-ingredients and the API's delete. *)

OrphanScripts ==
    {"delete_products_by_name", "delete_products_by_url",
     "delete_products_without_image"}

\* The ingredients of the tables that an association row references.
Referenced(tables) ==
    {i \in 1..Len(tables.ingredient) :
        \E a \in tables.association :
            a.ingredient_id = tables.ingredient[i].id}

\* An ingredient is in the table iff an association row references it, and
\* no ingredient that a remaining product is linked to has gone.
OnlyReferencedRemain ==
    /\ Referenced(Tables) = 1..Len(ingredient)
    /\ \A i \in 1..Len(lastOp.before.ingredient) :
          (\E a \in lastOp.before.association :
              /\ a.ingredient_id = lastOp.before.ingredient[i].id
              /\ a.product_id \in Ids(store))
          => \E k \in 1..Len(ingredient) :
                ingredient[k] = lastOp.before.ingredient[i]

\* C22 as stated: after every run of a deletion script with --yes and
\* --delete-orphan-ingredients, an ingredient is in the store iff an
\* association row references it, and no ingredient linked to a remaining
\* product was deleted.
C22_OrphansGoneAfterScript ==
    (lastOp.name \in OrphanScripts /\ lastOp.yes /\ lastOp.ret.orphans) =>
        OnlyReferencedRemain

\* C22 amended: that holds after every run that deleted a product; a run with
\* the flag that matched no product, or that stopped for an empty --contains,
\* deletes no ingredient, referenced or not.
C22_OrphansGoneAfterDeletion ==
    (lastOp.name \in OrphanScripts /\ lastOp.yes /\ lastOp.ret.orphans) =>
        IF lastOp.stmts # <<>> THEN OnlyReferencedRemain
        ELSE Tables = lastOp.before

\* A run with the flag that deleted products and, with them, an ingredient
\* only they were linked to, while another ingredient stayed.
C22_Witness ==
    /\ lastOp.name \in OrphanScripts /\ lastOp.yes /\ lastOp.ret.orphans
    /\ Len(store) < Len(lastOp.before.store)
    /\ Len(ingredient) < Len(lastOp.before.ingredient)
    /\ Referenced(lastOp.before) = 1..Len(lastOp.before.ingredient)
    /\ ingredient # <<>>

\* The products of a table without one id, in the table's order.
RECURSIVE ProductsExcept(_, _)
ProductsExcept(table, id) ==
    IF table = <<>> THEN <<>>
    ELSE (IF Head(table).id = id THEN <<>> ELSE <<Head(table)>>)
         \o ProductsExcept(Tail(table), id)

\* C30: DELETE /products/{id} answers 404 and changes nothing when no product
\* has the id; otherwise it removes that product and its association rows and
\* leaves the ingredients, the other products and the other association rows
\* as they were.
C30_DeleteFrame ==
    lastOp.name = "delete_product" =>
        LET id == lastOp.ret.product_id
            before == lastOp.before
        IN IF id \notin Ids(before.store)
           THEN lastOp.ret.status = 404 /\ Tables = before
           ELSE /\ lastOp.ret.status = 200
                /\ store = ProductsExcept(before.store, id)
                /\ association = {a \in before.association : a.product_id # id}
                /\ ingredient = before.ingredient

\* A product with association rows was deleted among other products.
C30_Witness ==
    /\ lastOp.name = "delete_product"
    /\ lastOp.ret.status = 200
    /\ \E a \in lastOp.before.association :
          a.product_id = lastOp.ret.product_id
    /\ store # <<>>
    /\ association # {}

-----------------------------------------------------------------------------
(* The duplicate-removal scripts.                                          *)

\* The rows a run started from, and those of them that are still there.
Before == {lastOp.before.store[i] : i \in 1..Len(lastOp.before.store)}
Kept == {row \in Before : \E k \in 1..Len(store) : store[k] = row}

\* A run removes rows and their association rows and changes nothing else.
OnlyRemoves ==
    /\ \A k \in 1..Len(store) : store[k] \in Before
    /\ association =
          {a \in lastOp.before.association : a.product_id \in Ids(store)}
    /\ ingredient = lastOp.before.ingredient

LowestId(rows) == CHOOSE row \in rows : \A other \in rows : row.id <= other.id

\* Products with the same name, case and surrounding blanks aside.
NameGroup(row) ==
    {other \in Before :
        Strip(LowerText(other.name.s)) = Strip(LowerText(row.name.s))}

\* C23: after remove_duplicate_products --yes, of every group of products
\* with the same name (case-insensitive, trimmed) exactly one is left; it is
\* the lowest id among the products of the group that have a description
\* (one that is not blank), and the lowest id of the group when none has.
C23_OneKeptPerName ==
    (lastOp.name = "remove_duplicate_products" /\ lastOp.yes) =>
        /\ OnlyRemoves
        /\ \A row \in Before :
              LET described == {other \in NameGroup(row) :
                                   Filled(other.description)}
              IN NameGroup(row) \cap Kept =
                     {LowestId(IF described # {} THEN described
                               ELSE NameGroup(row))}

\* A group lost its lowest id and kept a higher one that has a description.
C23_Witness ==
    /\ lastOp.name = "remove_duplicate_products" /\ lastOp.yes
    /\ \E row \in Kept :
          /\ Filled(row.description)
          /\ \E other \in NameGroup(row) \ Kept : other.id < row.id

\* lower(age_group) LIKE '%kitten%'
IsKitten(row) ==
    /\ row.age_group.t = "str"
    /\ \E i \in 1..Len(row.age_group.s) :
          i + 5 <= Len(row.age_group.s)
          /\ LowerText(SubSeq(row.age_group.s, i, i + 5))
                = <<"k", "i", "t", "t", "e", "n">>

\* Kitten products with the same normalized name.
KittenGroup(row) ==
    {other \in Before :
        /\ IsKitten(other)
        /\ normalize_name_for_dedupe(other.name.s)
             = normalize_name_for_dedupe(row.name.s)}

\* C24: after remove_duplicate_kitten_products --yes, of every group of
\* kitten products with the same normalized name exactly one is left and the
\* others are deleted; the one left has the highest completeness score of
\* the group and the lowest id among those with that score; a product whose
\* age_group does not hold "kitten" (in any case) is never deleted.
C24_BestKittenKept ==
    (lastOp.name = "remove_duplicate_kitten_products" /\ lastOp.yes) =>
        /\ OnlyRemoves
        /\ \A row \in Before : ~IsKitten(row) => row \in Kept
        /\ \A row \in Before :
              IsKitten(row) =>
                  LET best == {other \in KittenGroup(row) :
                                  \A any \in KittenGroup(row) :
                                      score_product(any) <= score_product(other)}
                  IN KittenGroup(row) \cap Kept = {LowestId(best)}

\* A kitten group lost its lowest id to a product with a higher score, while
\* an adult product of the same normalized name stayed.
C24_Witness ==
    /\ lastOp.name = "remove_duplicate_kitten_products" /\ lastOp.yes
    /\ \E row \in Kept :
          /\ IsKitten(row)
          /\ \E other \in KittenGroup(row) \ Kept :
                other.id < row.id /\ score_product(other) < score_product(row)
          /\ \E adult \in Kept :
                /\ ~IsKitten(adult)
                /\ normalize_name_for_dedupe(adult.name.s)
                     = normalize_name_for_dedupe(row.name.s)

\* The same ingredient list and the same description, a missing value
\* counting as the empty text and surrounding blanks aside.
SameListAndDescription(a, b) ==
    /\ StrippedOrEmpty(a.full_ingredient_list)
         = StrippedOrEmpty(b.full_ingredient_list)
    /\ StrippedOrEmpty(a.description) = StrippedOrEmpty(b.description)

-----------------------------------------------------------------------------
(* Ingestion.                                                              *)

\* C21: import_from_excel creates one product for every row of the sheet
\* that has a non-empty name, whatever its optional cells hold.
C21_OneProductPerNamedRow ==
    lastOp.name = "import_from_excel" =>
        Len(store) - Len(lastOp.before.store)
            = Cardinality({k \in 1..Len(lastOp.ret.rows) :
                              CellText(lastOp.ret.rows[k].name) # <<>>})

\* The names a call was given that are not blank, stripped.
Wanted(names) == NonEmpty([k \in 1..Len(names) |-> Strip(names[k])])

\* C26: no two ingredients ever have the same name; a call of
\* get_or_create_ingredients leaves the ingredients that were there as they
\* were, creates only names that were not there, and returns one ingredient
\* of the table for every name that is not blank, in the order of the names.
C26_GetOrCreateUnique ==
    /\ \A i, j \in 1..Len(ingredient) :
          ingredient[i].name = ingredient[j].name => i = j
    /\ lastOp.name = "get_or_create_ingredients" =>
          LET was == lastOp.before.ingredient
              wanted == Wanted(lastOp.ret.names)
              got == lastOp.ret.ingredients
          IN /\ Len(was) <= Len(ingredient)
             /\ SubSeq(ingredient, 1, Len(was)) = was
             /\ \A i \in (Len(was) + 1)..Len(ingredient) :
                   \E k \in 1..Len(wanted) : ingredient[i].name = JStr(wanted[k])
             /\ Len(got) = Len(wanted)
             /\ \A k \in 1..Len(wanted) :
                   /\ got[k].name = JStr(wanted[k])
                   /\ \E i \in 1..Len(ingredient) : ingredient[i] = got[k]

\* A call that was given a name that existed and a name that did not:
\* it returned the one and created the other.
C26_Witness ==
    /\ lastOp.name = "get_or_create_ingredients"
    /\ Len(ingredient) > Len(lastOp.before.ingredient)
    /\ \E k \in 1..Len(lastOp.ret.ingredients) :
          \E i \in 1..Len(lastOp.before.ingredient) :
              lastOp.before.ingredient[i] = lastOp.ret.ingredients[k]

\* The ingredients a row of a file names.
NamedIn(row) ==
    LET names == parse_ingredient_list(row.full_ingredient_list)
    IN {names[k] : k \in 1..Len(names)}

\* C28: ingest_csv_content goes through every row of the file, the rows
\* after a row that raised included (the ingredients a row names are in the
\* table afterwards), and the count of its message is the number of products
\* the call added.
C28_EveryRowCounted ==
    lastOp.name = "ingest_csv_content" =>
        /\ \A k \in 1..Len(lastOp.ret.rows) :
              \A name \in NamedIn(lastOp.ret.rows[k]) :
                  \E i \in 1..Len(ingredient) : ingredient[i].name = JStr(name)
        /\ lastOp.ret.count = Len(store) - Len(lastOp.before.store)

\* The first of two rows raised (nothing was counted) and the second row was
\* still processed: an ingredient only it names was created.
C28_Witness ==
    /\ lastOp.name = "ingest_csv_content"
    /\ Len(lastOp.ret.rows) = 2
    /\ lastOp.ret.count = 0
    /\ \E name \in NamedIn(lastOp.ret.rows[2]) \ NamedIn(lastOp.ret.rows[1]) :
          /\ \E i \in 1..Len(ingredient) : ingredient[i].name = JStr(name)
          /\ \A i \in 1..Len(lastOp.before.ingredient) :
                lastOp.before.ingredient[i].name # JStr(name)

\* C29: when ingest_product_from_row raises (the file's one row was not
\* counted), the store is as it was: no product, no ingredient and no
\* association row was added.
C29_RowAllOrNothing ==
    (/\ lastOp.name = "ingest_csv_content"
     /\ Len(lastOp.ret.rows) = 1
     /\ lastOp.ret.count = 0) =>
        /\ store = lastOp.before.store
        /\ ingredient = lastOp.before.ingredient
        /\ association = lastOp.before.association

\* C27: when two ingestion requests that name the same ingredient, which was
\* not there, have both ended, the table holds exactly one ingredient of
\* that name and both requests got it, neither having raised, however their
\* lookups and creations were interleaved.
C27_BothObtainOneIngredient ==
    (\A i \in Requests : reqs[i].pc = "done") =>
        \A name \in NamedIn(reqs[1].row) \cap NamedIn(reqs[2].row) :
            /\ Cardinality(get_by_name(name, Tables)) = 1
            /\ \A i \in Requests :
                  /\ ~reqs[i].raised
                  /\ \E k \in 1..Len(reqs[i].ingredients) :
                        reqs[i].ingredients[k].name = JStr(name)

====
